---- MODULE Spec2Model ----
(***************************************************************************)
(* Solar position and twilight-event engine (cpp/noaa_sun.cpp,             *)
(* cpp/wiki_sun.cpp, the enum-based snapshot cpp/sun.cpp, cpp/angle.h,     *)
(* cpp/julian_date.h, cpp/sun.h).                                          *)
(*                                                                         *)
(* Number model.  A C++ double is a fixed-point integer with six decimal   *)
(* places (S units per 1.0), or one of three non-finite values NaN, PInf,  *)
(* NInf.  An Angle is its radian value, so it counts micro-radians; a      *)
(* julian_days duration counts micro-days.  Degree-valued intermediate     *)
(* results (the almanac polynomials) carry four decimal places, and the    *)
(* Julian-century argument t carries nine.  A julian_day / julian_century  *)
(* time point is a record [hd, off]: hd whole half-days since the epoch    *)
(* the code has subtracted, off the remaining micro-days (or NaN).         *)
(* sys_seconds and sys_days are exact integers.                            *)
(*                                                                         *)
(* Local values.  C++ evaluates an argument or an initializer once and     *)
(* then names the value.  CHOOSE val \in {e : x \in {v}} : TRUE does the   *)
(* same: it is e, with x naming the value of v.                            *)
(***************************************************************************)
EXTENDS Integers, Sequences, FiniteSets

(***************************************************************************)
(* double: representation and arithmetic                                   *)
(***************************************************************************)
S == 1000000
NaN == 2147483647
PInf == 2147483646
NInf == -2147483646
MaxFinite == 2000000000

IsNaN(x) == x = NaN
IsInf(x) == x \in {PInf, NInf}
Finite(x) == x \notin {NaN, PInf, NInf}
Abs(x) == CHOOSE val \in {IF a < 0 THEN -a ELSE a : a \in {x}} : TRUE
Sgn(x) == CHOOSE val \in {IF a < 0 THEN -1 ELSE IF a = 0 THEN 0 ELSE 1 : a \in {x}} : TRUE

\* |a| * |b| / S, rounded to nearest, by three-digit limbs (a, b >= 0)
MulAbs(a, b) ==
    CHOOSE val \in
      { ah * bh + (ah * bl + al * bh + (al * bl) \div 1000 + 500) \div 1000
        : ah \in {a \div 1000}, al \in {a % 1000},
          bh \in {b \div 1000}, bl \in {b % 1000} } : TRUE

\* product of two finite doubles
Mul(a, b) ==
    CHOOSE val \in
      { Sgn(x) * Sgn(y) * MulAbs(Abs(x), Abs(y)) : x \in {a}, y \in {b} } : TRUE

\* 10^(n-1)
Pow10(n) ==
    IF n = 6 THEN 100000 ELSE IF n = 5 THEN 10000 ELSE IF n = 4 THEN 1000
    ELSE IF n = 3 THEN 100 ELSE IF n = 2 THEN 10 ELSE 1

\* n decimal digits of the fraction r / b, for 0 <= r < b
RECURSIVE LongDiv(_, _, _)
LongDiv(r, b, n) ==
    IF n = 0 THEN 0
    ELSE CHOOSE val \in
           { (r10 \div d) * Pow10(k) + LongDiv(r10 % d, d, k - 1)
             : r10 \in {r * 10}, d \in {b}, k \in {n} } : TRUE

\* |a| / |b| for finite quotients (a >= 0, b > 0)
DivAbs(a, b) ==
    CHOOSE val \in
      { (x \div y) * S + LongDiv(x % y, y, 6) : x \in {a}, y \in {b} } : TRUE

SignedInf(s) == IF s > 0 THEN PInf ELSE NInf

\* IEEE division: x/0 is an infinity, 0/0 and inf/inf are NaN, overflow is an infinity
FDiv(a, b) ==
    CHOOSE val \in
      { IF IsNaN(x) \/ IsNaN(y) THEN NaN
        ELSE IF IsInf(x) /\ IsInf(y) THEN NaN
        ELSE IF IsInf(x) THEN SignedInf(Sgn(x) * (IF y >= 0 THEN 1 ELSE -1))
        ELSE IF IsInf(y) THEN 0
        ELSE IF y = 0 THEN (IF x = 0 THEN NaN ELSE SignedInf(x))
        ELSE IF Abs(x) \div Abs(y) > MaxFinite \div S - 1
             THEN SignedInf(Sgn(x) * Sgn(y))
        ELSE Sgn(x) * Sgn(y) * DivAbs(Abs(x), Abs(y))
        : x \in {a}, y \in {b} } : TRUE

\* whether |a| * |b| / S exceeds the finite range (a, b >= 0)
MulOverflows(a, b) ==
    CHOOSE val \in
      { ah > 0 /\ b \div 1000 > MaxFinite \div ah - 2 : ah \in {a \div 1000} } : TRUE

\* IEEE multiplication: inf * 0 is NaN, overflow is an infinity
FMul(a, b) ==
    CHOOSE val \in
      { IF IsNaN(x) \/ IsNaN(y) THEN NaN
        ELSE IF IsInf(x) \/ IsInf(y)
             THEN (IF x = 0 \/ y = 0 THEN NaN ELSE SignedInf(Sgn(x) * Sgn(y)))
        ELSE IF MulOverflows(Abs(x), Abs(y)) THEN SignedInf(Sgn(x) * Sgn(y))
        ELSE Mul(x, y)
        : x \in {a}, y \in {b} } : TRUE

\* IEEE subtraction: inf - inf is NaN
FSub(a, b) ==
    CHOOSE val \in
      { IF IsNaN(x) \/ IsNaN(y) THEN NaN
        ELSE IF IsInf(x) /\ IsInf(y) THEN (IF x = y THEN NaN ELSE x)
        ELSE IF IsInf(x) THEN x
        ELSE IF IsInf(y) THEN -y
        ELSE IF x - y > MaxFinite THEN PInf
        ELSE IF x - y < -MaxFinite THEN NInf
        ELSE x - y
        : x \in {a}, y \in {b} } : TRUE

\* a sum reduced into one turn of 2 * M_PI; C16 tells it from NAdd
NAdd_one_turn(a, b) ==
    CHOOSE val \in
      { IF IsNaN(x) \/ IsNaN(y) THEN NaN ELSE (x + y) % 6283185 : x \in {a}, y \in {b} } : TRUE

\* sum and difference of doubles of which either may be NaN (no infinities arise here)
NAdd(a, b) ==
    CHOOSE val \in
      { IF IsNaN(x) \/ IsNaN(y) THEN NaN ELSE x + y : x \in {a}, y \in {b} } : TRUE
NSub(a, b) ==
    CHOOSE val \in
      { IF IsNaN(x) \/ IsNaN(y) THEN NaN ELSE x - y : x \in {a}, y \in {b} } : TRUE

\* C fmod for a positive modulus: the result keeps the sign of the dividend
FMod(a, m) == CHOOSE val \in {Sgn(x) * (Abs(x) % m) : x \in {a}} : TRUE

\* copysign(m, s): NaN stays NaN
CopySign(m, s) ==
    CHOOSE val \in
      { IF IsNaN(x) THEN NaN ELSE IF s < 0 THEN -Abs(x) ELSE Abs(x) : x \in {m} } : TRUE

(***************************************************************************)
(* <cmath>: M_PI, sin, cos, tan, asin, acos on micro-radians               *)
(***************************************************************************)
PI == 3141593
TwoPi == 6283185
HalfPi == 1570796

\* r - 2*pi for r in (pi, 2*pi)
Centre(r) == CHOOSE val \in {IF a > PI THEN a - TwoPi ELSE a : a \in {r}} : TRUE

\* the angle in [-pi/2, pi/2] with the same sine, for r in [-pi, pi]
Quadrant(r) ==
    CHOOSE val \in
      { IF a > HalfPi THEN PI - a ELSE IF a < -HalfPi THEN -PI - a ELSE a
        : a \in {r} } : TRUE

\* argument reduction into [-pi/2, pi/2]; 2*pi = 6283185.307 micro-radians
Reduce(x) ==
    CHOOSE val \in
      { Quadrant(Centre(a - k * TwoPi - (k * 307) \div 1000))
        : a \in {x}, k \in {x \div TwoPi} } : TRUE

\* one step of the series: 1 - r2 * p / k
SeriesStep(r2, p, k) == S - Mul(r2, p) \div k

Clamp(v) ==
    CHOOSE val \in {IF a > S THEN S ELSE IF a < -S THEN -S ELSE a : a \in {v}} : TRUE

\* sine series to the x^11 term, clamped to [-1, 1]; r2 is r * r
Series(r, r2) ==
    CHOOSE val \in
      { Clamp(Mul(r, SeriesStep(q, SeriesStep(q, SeriesStep(q, SeriesStep(q,
                     S - q \div 110, 72), 42), 20), 6)))
        : q \in {r2} } : TRUE

SinPoly(r) == CHOOSE val \in {Series(a, Mul(a, a)) : a \in {r}} : TRUE

Sin(x) ==
    CHOOSE val \in {IF Finite(a) THEN SinPoly(Reduce(a)) ELSE NaN : a \in {x}} : TRUE
Cos(x) ==
    CHOOSE val \in
      { IF Finite(a) THEN SinPoly(Reduce(a + HalfPi)) ELSE NaN : a \in {x} } : TRUE
Tan(x) == CHOOSE val \in {FDiv(Sin(a), Cos(a)) : a \in {x}} : TRUE

\* the least theta in [lo, hi] whose cosine is at most x
RECURSIVE AcosBisect(_, _, _)
AcosBisect(lo, hi, x) ==
    IF hi - lo <= 1 THEN (IF Cos(lo) <= x THEN lo ELSE hi)
    ELSE CHOOSE val \in
           { IF Cos(m) <= x THEN AcosBisect(lo, m, x) ELSE AcosBisect(m, hi, x)
             : m \in {(lo + hi) \div 2} } : TRUE

\* acos: NaN outside [-1, 1] (the domain error the engine relies on)
Acos(x) ==
    CHOOSE val \in
      { IF ~Finite(a) \/ a > S \/ a < -S THEN NaN
        ELSE IF a < 0 THEN PI - AcosBisect(0, HalfPi, -a)
        ELSE AcosBisect(0, HalfPi, a)
        : a \in {x} } : TRUE

\* asin: NaN outside [-1, 1]
Asin(x) ==
    CHOOSE val \in
      { IF ~Finite(a) \/ a > S \/ a < -S THEN NaN
        ELSE IF a < 0 THEN -(HalfPi - Acos(-a))
        ELSE HalfPi - Acos(a)
        : a \in {x} } : TRUE

(***************************************************************************)
(* angle.h: struct Angle (the radian value, in micro-radians)              *)
(***************************************************************************)
\* Angle::from_rad and Angle::rad: the stored value itself
from_rad(r) == r
rad(a) == a

\* m * (M_PI / 180.0) for m >= 0 with four decimals: 0.0174532925 per degree
DegToRad(m) ==
    CHOOSE val \in
      { q * 17453 + (q * 2925 + r * 17453 + 5000) \div 10000
        : q \in {m \div 10000}, r \in {m % 10000} } : TRUE

\* Angle::from_deg: deg * (M_PI / 180.0), for a degree value with four decimals
from_deg(d) ==
    CHOOSE val \in
      { IF IsNaN(x) THEN NaN ELSE Sgn(x) * DegToRad(Abs(x)) : x \in {d} } : TRUE

\* Angle::deg: value * (180.0 / M_PI), as a degree value with four decimals
deg(a) == CHOOSE val \in {IF Finite(x) THEN Mul(x, 572958) ELSE NaN : x \in {a}} : TRUE

\* a day offset that takes the half turn for a day; C15 tells it from julian_days
julian_days_half_turn(a) ==
    CHOOSE val \in
      { IF Finite(x) THEN Sgn(x) * DivAbs(Abs(x), PI) ELSE NaN : x \in {a} } : TRUE

\* explicit operator julian_days: value / (2 * M_PI), in micro-days
julian_days(a) ==
    CHOOSE val \in
      { IF Finite(x) THEN Sgn(x) * DivAbs(Abs(x), TwoPi) ELSE NaN : x \in {a} } : TRUE

\* operator/(Angle, double) for a whole divisor
AngleDiv(a, k) == CHOOSE val \in {Sgn(x) * (Abs(x) \div k) : x \in {a}} : TRUE

(***************************************************************************)
(* julian_date.h and <chrono>                                              *)
(***************************************************************************)
\* jdiff(): 1970-01-01 00:00 minus -4713-11-24 12:00 = 2440587.5 days, in half-days
jdiff == 4881175

\* start_of_julian_century = julian_days{2451545.0}, in half-days
start_of_julian_century == 4903090

\* sys_to_julian of a sys_seconds time point: tp.time_since_epoch() + jdiff()
sys_to_julian(sec) ==
    CHOOSE val \in
      { [hd |-> 2 * (s \div 86400) + jdiff, off |-> ((s % 86400) * 625) \div 54]
        : s \in {sec} } : TRUE

\* julian_to_sys: tp.time_since_epoch() - jdiff()
julian_to_sys(tp) ==
    CHOOSE val \in {[hd |-> p.hd - jdiff, off |-> p.off] : p \in {tp}} : TRUE

\* the template sys_to_julian at an integral Duration, a time point being the
\* count and the period in seconds of its duration: jdiff() is a count of hours,
\* and the sum of two durations has the finer of two periods of which one
\* divides the other
sys_to_julian_duration(tp) ==
    IF tp.period % 3600 = 0
    THEN [count |-> tp.count * (tp.period \div 3600) + jdiff * 12, period |-> 3600]
    ELSE [count |-> tp.count + jdiff * 12 * (3600 \div tp.period), period |-> tp.period]

\* julian_to_sys with the offset of sys_to_julian rounded to whole days; C14
\* tells it from julian_to_sys_duration
julian_to_sys_whole_days(tp) ==
    IF tp.period % 3600 = 0
    THEN [count |-> tp.count * (tp.period \div 3600) - (jdiff + 1) * 12, period |-> 3600]
    ELSE [count |-> tp.count - (jdiff + 1) * 12 * (3600 \div tp.period), period |-> tp.period]

\* the template julian_to_sys at an integral Duration
julian_to_sys_duration(tp) ==
    IF tp.period % 3600 = 0
    THEN [count |-> tp.count * (tp.period \div 3600) - jdiff * 12, period |-> 3600]
    ELSE [count |-> tp.count - jdiff * 12 * (3600 \div tp.period), period |-> tp.period]

\* time_point + julian_days
AddDays(tp, d) ==
    CHOOSE val \in {[hd |-> p.hd, off |-> NAdd(p.off, d)] : p \in {tp}} : TRUE

\* the outcome of converting a NaN to an integer count (undefined behaviour; the
\* guards in front of every conversion keep it from being reached)
Indefinite == -2147483645

\* duration_cast<seconds>, which truncates toward zero, in the place of
\* floor<seconds>; C13 tells it from floor_seconds
floor_seconds_trunc(tp) ==
    CHOOSE val \in
      { IF ~Finite(p.off) THEN Indefinite
        ELSE IF p.hd * 43200 + (p.off * 54) \div 625 < 0 /\ (p.off * 54) % 625 # 0
             THEN p.hd * 43200 + (p.off * 54) \div 625 + 1
        ELSE p.hd * 43200 + (p.off * 54) \div 625
        : p \in {tp} } : TRUE

\* floor<seconds> of a time point counted from 1970-01-01
floor_seconds(tp) ==
    CHOOSE val \in
      { IF ~Finite(p.off) THEN Indefinite
        ELSE p.hd * 43200 + (p.off * 54) \div 625
        : p \in {tp} } : TRUE

\* tp.time_since_epoch().count() of a julian_century: Julian centuries with nine
\* decimals (1e9 / 73050 = 13689.2539 per half-day, 1000 / 36525 = 40 / 1461 per micro-day)
Centuries(tp) ==
    CHOOSE val \in
      { IF ~Finite(p.off) THEN NaN
        ELSE p.hd * 13689 + (p.hd * 2539) \div 10000 + (p.off * 40) \div 1461
        : p \in {tp} } : TRUE

\* |a| * |t| for a coefficient a >= 0 and t >= 0 in centuries with nine decimals
MulTAbs(a, t) ==
    CHOOSE val \in
      { a1 * t1 + (a0 * t1 + a1 * t2 + (a0 * t2 + a1 * t3) \div 1000 + 500) \div 1000
        : a1 \in {a \div 1000}, a0 \in {a % 1000},
          t1 \in {t \div 1000000}, t2 \in {(t \div 1000) % 1000}, t3 \in {t % 1000} } : TRUE

\* coefficient * t for a coefficient a and t in centuries with nine decimals
MulT(a, t) ==
    CHOOSE val \in
      { Sgn(x) * Sgn(y) * MulTAbs(Abs(x), Abs(y)) : x \in {a}, y \in {t} } : TRUE

\* std::nullopt of optional<sys_seconds>
NULLOPT == -2147483647

(***************************************************************************)
(* sun.h: the SunTime target angles and struct sun_times                   *)
(***************************************************************************)
astroTwilightElev == -180000
nautTwilightElev == -120000
civilTwilightElev == -60000
daytimeElev == -8330

SunTime_Noon == from_deg(0)
SunTime_Midnight == from_deg(1800000)
SunTime_AstroDawn == from_deg(-900000 + astroTwilightElev)
SunTime_NautDawn == from_deg(-900000 + nautTwilightElev)
SunTime_CivilDawn == from_deg(-900000 + civilTwilightElev)
SunTime_Sunrise == from_deg(-900000 + daytimeElev)
SunTime_Sunset == from_deg(900000 - daytimeElev)
SunTime_CivilDusk == from_deg(900000 - civilTwilightElev)
SunTime_NautDusk == from_deg(900000 - nautTwilightElev)
SunTime_AstroDusk == from_deg(900000 - astroTwilightElev)

\* the fields of sun_times, in declaration order
Fields ==
    <<"noon", "midnight", "astro_dawn", "naut_dawn", "civil_dawn", "sunrise",
      "sunset", "civil_dusk", "naut_dusk", "astro_dusk">>

\* the eight optional fields
TwilightFields == {Fields[i] : i \in 3..10}

\* the SunTime angle each field of sun_times is computed for
FieldAngle(f) ==
    CASE f = "noon" -> SunTime_Noon
      [] f = "midnight" -> SunTime_Midnight
      [] f = "astro_dawn" -> SunTime_AstroDawn
      [] f = "naut_dawn" -> SunTime_NautDawn
      [] f = "civil_dawn" -> SunTime_CivilDawn
      [] f = "sunrise" -> SunTime_Sunrise
      [] f = "sunset" -> SunTime_Sunset
      [] f = "civil_dusk" -> SunTime_CivilDusk
      [] f = "naut_dusk" -> SunTime_NautDusk
      [] f = "astro_dusk" -> SunTime_AstroDusk

(***************************************************************************)
(* noaa_sun.cpp: the solar ephemeris (tp is a julian_century time point)   *)
(***************************************************************************)
sun_geometric_mean_longitude(tp) ==
    CHOOSE val \in
      { IF IsNaN(t) THEN NaN
        ELSE from_deg(FMod(2804665 + MulT(360007698 + MulT(3, t), t), 3600000))
        : t \in {Centuries(tp)} } : TRUE

sun_geometric_mean_anomaly(tp) ==
    CHOOSE val \in
      { IF IsNaN(t) THEN NaN
        ELSE from_deg(3575291 + MulT(359990503 - MulT(2, t), t))
        : t \in {Centuries(tp)} } : TRUE

earth_orbit_eccentricity(tp) ==
    CHOOSE val \in
      { IF IsNaN(t) THEN NaN
        ELSE 16709 - MulT(42 + MulT(0, t), t)
        : t \in {Centuries(tp)} } : TRUE

sun_equation_of_center(tp) ==
    CHOOSE val \in
      { IF IsNaN(t) THEN NaN
        ELSE from_deg(Mul(Sin(an), 19146 - MulT(48 + MulT(0, t), t))
                      + Mul(Sin(2 * an), 200 - MulT(1, t))
                      + Mul(Sin(3 * an), 3))
        : an \in {sun_geometric_mean_anomaly(tp)}, t \in {Centuries(tp)} } : TRUE

\* sun_true_longitude is the sum of the mean longitude and the equation of center
sun_apparent_longitude(tp) ==
    CHOOSE val \in
      { IF IsNaN(t) THEN NaN
        ELSE sun_geometric_mean_longitude(tp) + sun_equation_of_center(tp)
             - from_deg(57 + Mul(48, Sin(from_deg(1250400 - MulT(19341360, t)))))
        : t \in {Centuries(tp)} } : TRUE

mean_ecliptic_obliquity(tp) ==
    CHOOSE val \in
      { IF IsNaN(t) THEN NaN
        ELSE from_deg(230000
                      + (260000 + (214480 - MulT(468150 + MulT(6 - MulT(18, t), t), t)) \div 60)
                        \div 60)
        : t \in {Centuries(tp)} } : TRUE

obliquity_correction(tp) ==
    CHOOSE val \in
      { IF IsNaN(t) THEN NaN
        ELSE mean_ecliptic_obliquity(tp)
             + from_deg(Mul(26, Cos(from_deg(1250400 - MulT(19341360, t)))))
        : t \in {Centuries(tp)} } : TRUE

\* the declination with the seasons of the two hemispheres exchanged; C19 tells
\* it from sun_declination
sun_declination_mirrored(tp) ==
    CHOOSE val \in
      { IF IsNaN(Centuries(p)) THEN NaN
        ELSE from_rad(-Asin(Mul(Sin(obliquity_correction(p)),
                                Sin(sun_apparent_longitude(p)))))
        : p \in {tp} } : TRUE

sun_declination(tp) ==
    CHOOSE val \in
      { IF IsNaN(Centuries(p)) THEN NaN
        ELSE from_rad(Asin(Mul(Sin(obliquity_correction(p)),
                               Sin(sun_apparent_longitude(p)))))
        : p \in {tp} } : TRUE

\* y = tan(obliquity / 2) squared
TanSquared(a) == CHOOSE val \in {Mul(th, th) : th \in {Tan(a)}} : TRUE

\* the five terms of the equation of time
EquationOfTimeTerms(mean_longitude, mean_anomaly, eccentricity, tan_squared) ==
    CHOOSE val \in
      { from_rad(Mul(y, Sin(2 * I2)) - Mul(2 * K2, Sin(J2))
                 + Mul(Mul(Mul(4 * K2, y), Sin(J2)), Cos(2 * I2))
                 - Mul(Mul(y \div 2, y), Sin(4 * I2))
                 - Mul(Mul((5 * K2) \div 4, K2), Sin(2 * J2)))
        : I2 \in {mean_longitude}, J2 \in {mean_anomaly}, K2 \in {eccentricity},
          y \in {tan_squared} } : TRUE

equation_of_time(tp) ==
    CHOOSE val \in
      { IF IsNaN(Centuries(p)) THEN NaN
        ELSE EquationOfTimeTerms(sun_geometric_mean_longitude(p),
                                 sun_geometric_mean_anomaly(p),
                                 earth_orbit_eccentricity(p),
                                 TanSquared(AngleDiv(obliquity_correction(p), 2)))
        : p \in {tp} } : TRUE

\* the argument hour_angle hands to acos
noaa_hour_angle_arg(tp, latitude, elevation) ==
    CHOOSE val \in
      { FSub(FDiv(Cos(elevation), FMul(Cos(latitude), Cos(decli))),
             FMul(Tan(latitude), Tan(decli)))
        : decli \in {sun_declination(tp)} } : TRUE

\* the hour angle without copysign, as the JavaScript original returns it; C18
\* tells it from noaa_hour_angle
noaa_hour_angle_unsigned(tp, latitude, elevation) ==
    from_rad(Acos(noaa_hour_angle_arg(tp, latitude, elevation)))

noaa_hour_angle(tp, latitude, elevation) ==
    from_rad(CopySign(Acos(noaa_hour_angle_arg(tp, latitude, elevation)), rad(elevation)))

\* the argument elevation_from_hour_angle hands to its inverse function
elevation_arg(tp, latitude, hour_angle) ==
    CHOOSE val \in
      { Mul(Mul(Cos(hour_angle), Cos(latitude)), Cos(decli))
        + Mul(Sin(latitude), Sin(decli))
        : decli \in {sun_declination(tp)} } : TRUE

\* elevation_from_hour_angle with asin in the place of acos; C7 tells the two apart
elevation_from_hour_angle_asin(tp, latitude, hour_angle) ==
    from_rad(Asin(elevation_arg(tp, latitude, hour_angle)))

elevation_from_hour_angle(tp, latitude, hour_angle) ==
    from_rad(Acos(elevation_arg(tp, latitude, hour_angle)))

\* static constexpr auto Noon = Angle::from_deg(180)
Noon == from_deg(1800000)

\* the solar noon after one evaluation of the equation of time, at the
\* approximation from the longitude; C23 tells it from time_of_solar_noon
time_of_solar_noon_one_pass(day, longitude) ==
    CHOOSE val \in
      { julian_days(Noon - lo - equation_of_time(AddDays(d, julian_days(Noon - lo))))
        : d \in {day}, lo \in {longitude} } : TRUE

\* the solar noon with the longitude counted positive to the west; C17 tells it
\* from time_of_solar_noon
time_of_solar_noon_west(day, longitude) ==
    CHOOSE val \in
      { julian_days(Noon + lo
                    - equation_of_time(AddDays(d, julian_days(Noon + lo
                          - equation_of_time(AddDays(d, julian_days(Noon + lo)))))))
        : d \in {day}, lo \in {longitude} } : TRUE

\* approx_noon_offset, then eq_of_time1 at day + approx_noon_offset, then
\* eq_of_time2 at day + julian_days(Noon - longitude - eq_of_time1)
time_of_solar_noon(day, longitude) ==
    CHOOSE val \in
      { julian_days(Noon - lo
                    - equation_of_time(AddDays(d, julian_days(Noon - lo
                          - equation_of_time(AddDays(d, julian_days(Noon - lo)))))))
        : d \in {day}, lo \in {longitude} } : TRUE

\* the second pass of time_of_solar_elevation, at tp = noon + julian_days(angle1)
ElevationOffsetAt(tp, latitude, longitude, elevation) ==
    CHOOSE val \in
      { julian_days(NAdd(NSub(Noon - longitude, equation_of_time(p)),
                         noaa_hour_angle(p, latitude, elevation)))
        : p \in {tp} } : TRUE

\* the offset after the first pass only, with the equation of time and the hour
\* angle of the converged noon; C24 tells it from time_of_solar_elevation
time_of_solar_elevation_one_pass(noon, latitude, longitude, elevation) ==
    ElevationOffsetAt(noon, latitude, longitude, elevation)

time_of_solar_elevation(noon, latitude, longitude, elevation) ==
    CHOOSE val \in
      { ElevationOffsetAt(AddDays(n, julian_days(noaa_hour_angle(n, latitude, elevation))),
                          latitude, longitude, elevation)
        : n \in {noon} } : TRUE

\* the time point counted from 2000-01-01 00:00 instead of 12:00; C29 tells it
\* from JulianCentury
JulianCentury_from_midnight(sec) ==
    CHOOSE val \in
      { [hd |-> j.hd - start_of_julian_century + 1, off |-> j.off]
        : j \in {sys_to_julian(sec)} } : TRUE

(***************************************************************************)
(* noaa_sun.cpp: the public functions of namespace sun::noaa               *)
(***************************************************************************)
\* julian_day(sys_to_julian(time_point)) - start_of_julian_century
JulianCentury(sec) ==
    CHOOSE val \in
      { [hd |-> j.hd - start_of_julian_century, off |-> j.off]
        : j \in {sys_to_julian(sec)} } : TRUE

\* j_day: the julian_century time point of midnight UTC of a sys_days date
noaa_j_day(d) == JulianCentury(d * 86400)

\* sys_days + julian_days
SysDaysPlus(d, a) == [hd |-> 2 * d, off |-> a]

\* Angle(julian_days(time_point - date)): seconds of the day as an angle,
\* 2 * pi / 86400 = 72.72205217 micro-radians per second
SecondsAngle(sec) ==
    CHOOSE val \in
      { s * 72 + (s * 7220 + (s * 5217) \div 10000) \div 10000 : s \in {sec} } : TRUE

\* the hour angle get_sun_elevation hands to elevation_from_hour_angle:
\* longitude + eq_of_time + minutes_from_midnight - Noon
elevation_hour_angle(j_tp, longitude, time_point) ==
    longitude + equation_of_time(j_tp)
    + SecondsAngle(time_point - (time_point \div 86400) * 86400) - Noon

noaa_get_sun_elevation(latitude, longitude, time_point) ==
    CHOOSE val \in
      { elevation_from_hour_angle(j_tp, latitude,
                                  elevation_hour_angle(j_tp, longitude, time_point))
        : j_tp \in {JulianCentury(time_point)} } : TRUE

\* the return of get_sun_time without the isnan test; C22 tells it from
\* seconds_or_nullopt
seconds_unchecked(d, angle) == floor_seconds(SysDaysPlus(d, angle))

\* if (!std::isnan(angle.count())) return floor<seconds>(date + angle);
\* else return std::nullopt;
seconds_or_nullopt(d, angle) ==
    CHOOSE val \in
      { IF ~IsNaN(a) THEN floor_seconds(SysDaysPlus(d, a)) ELSE NULLOPT
        : a \in {angle} } : TRUE

\* get_sun_time without the tests for Noon and Midnight: every angle goes
\* through time_of_solar_elevation; C27 tells it from noaa_get_sun_time
noaa_get_sun_time_no_sentinels(latitude, longitude, d, elevation) ==
    CHOOSE val \in
      { seconds_or_nullopt(d, time_of_solar_elevation(AddDays(j_day, a_noon),
                                                      latitude, longitude, elevation))
        : j_day \in {noaa_j_day(d)},
          a_noon \in {time_of_solar_noon(noaa_j_day(d), longitude)} } : TRUE

\* get_sun_time with the midnight half a day before the noon; C26 tells it from
\* noaa_get_sun_time
noaa_get_sun_time_midnight_before(latitude, longitude, d, elevation) ==
    CHOOSE val \in
      { IF elevation = SunTime_Noon THEN floor_seconds(SysDaysPlus(d, a_noon))
        ELSE IF elevation = SunTime_Midnight
             THEN floor_seconds(AddDays(SysDaysPlus(d, a_noon), -500000))
        ELSE seconds_or_nullopt(d, time_of_solar_elevation(AddDays(j_day, a_noon),
                                                           latitude, longitude, elevation))
        : j_day \in {noaa_j_day(d)},
          a_noon \in {time_of_solar_noon(noaa_j_day(d), longitude)} } : TRUE

\* j_noon is j_day + a_noon and t_noon is date + a_noon
noaa_get_sun_time(latitude, longitude, d, elevation) ==
    CHOOSE val \in
      { IF elevation = SunTime_Noon THEN floor_seconds(SysDaysPlus(d, a_noon))
        ELSE IF elevation = SunTime_Midnight
             THEN floor_seconds(AddDays(SysDaysPlus(d, a_noon), 500000))
        ELSE seconds_or_nullopt(d, time_of_solar_elevation(AddDays(j_day, a_noon),
                                                           latitude, longitude, elevation))
        : j_day \in {noaa_j_day(d)},
          a_noon \in {time_of_solar_noon(noaa_j_day(d), longitude)} } : TRUE

\* a sun_times value; exc names the exception that left the call instead, if any
SunTimes(n, m, ad, nd, cd, sr, ss, cu, nu, au) ==
    [exc |-> "none", noon |-> n, midnight |-> m, astro_dawn |-> ad, naut_dawn |-> nd,
     civil_dawn |-> cd, sunrise |-> sr, sunset |-> ss, civil_dusk |-> cu,
     naut_dusk |-> nu, astro_dusk |-> au]

Thrown(e) ==
    [exc |-> e, noon |-> NULLOPT, midnight |-> NULLOPT, astro_dawn |-> NULLOPT,
     naut_dawn |-> NULLOPT, civil_dawn |-> NULLOPT, sunrise |-> NULLOPT,
     sunset |-> NULLOPT, civil_dusk |-> NULLOPT, naut_dusk |-> NULLOPT,
     astro_dusk |-> NULLOPT]

\* the initializer with .value() on all ten optionals; C3 tells it from Aggregate
Aggregate_all_values(n, m, ad, nd, cd, sr, ss, cu, nu, au) ==
    CHOOSE val \in
      { IF \E i \in DOMAIN Fields : r[Fields[i]] = NULLOPT
        THEN Thrown("bad_optional_access")
        ELSE r
        : r \in {SunTimes(n, m, ad, nd, cd, sr, ss, cu, nu, au)} } : TRUE

\* the braced initializer of get_sun_times: optional::value() throws on nullopt
Aggregate(n, m, ad, nd, cd, sr, ss, cu, nu, au) ==
    CHOOSE val \in
      { IF vn = NULLOPT \/ vm = NULLOPT THEN Thrown("bad_optional_access")
        ELSE SunTimes(vn, vm, ad, nd, cd, sr, ss, cu, nu, au)
        : vn \in {n}, vm \in {m} } : TRUE

noaa_get_sun_times(la, lo, d) ==
    Aggregate(noaa_get_sun_time(la, lo, d, SunTime_Noon),
              noaa_get_sun_time(la, lo, d, SunTime_Midnight),
              noaa_get_sun_time(la, lo, d, SunTime_AstroDawn),
              noaa_get_sun_time(la, lo, d, SunTime_NautDawn),
              noaa_get_sun_time(la, lo, d, SunTime_CivilDawn),
              noaa_get_sun_time(la, lo, d, SunTime_Sunrise),
              noaa_get_sun_time(la, lo, d, SunTime_Sunset),
              noaa_get_sun_time(la, lo, d, SunTime_CivilDusk),
              noaa_get_sun_time(la, lo, d, SunTime_NautDusk),
              noaa_get_sun_time(la, lo, d, SunTime_AstroDusk))

\* the get_time lambda of get_sun_times_opt
opt_get_time(j_noon, la, lo, d, elevation) ==
    seconds_or_nullopt(d, time_of_solar_elevation(j_noon, la, lo, elevation))

\* the assignments to res, given j_noon and t_noon
opt_fill(j_noon, t_noon, la, lo, d) ==
    CHOOSE val \in
      { SunTimes(floor_seconds(tn),
                 floor_seconds(AddDays(tn, 500000)),
                 opt_get_time(jn, la, lo, d, SunTime_AstroDawn),
                 opt_get_time(jn, la, lo, d, SunTime_NautDawn),
                 opt_get_time(jn, la, lo, d, SunTime_CivilDawn),
                 opt_get_time(jn, la, lo, d, SunTime_Sunrise),
                 opt_get_time(jn, la, lo, d, SunTime_Sunset),
                 opt_get_time(jn, la, lo, d, SunTime_CivilDusk),
                 opt_get_time(jn, la, lo, d, SunTime_NautDusk),
                 opt_get_time(jn, la, lo, d, SunTime_AstroDusk))
        : jn \in {j_noon}, tn \in {t_noon} } : TRUE

\* get_sun_times_opt with the first pass started from j_day instead of j_noon;
\* C8 tells it from noaa_get_sun_times_opt
noaa_get_sun_times_opt_from_day(la, lo, d) ==
    CHOOSE val \in
      { opt_fill(noaa_j_day(d), SysDaysPlus(d, a_noon), la, lo, d)
        : a_noon \in {time_of_solar_noon(noaa_j_day(d), lo)} } : TRUE

noaa_get_sun_times_opt(la, lo, d) ==
    CHOOSE val \in
      { opt_fill(AddDays(noaa_j_day(d), a_noon), SysDaysPlus(d, a_noon), la, lo, d)
        : a_noon \in {time_of_solar_noon(noaa_j_day(d), lo)} } : TRUE

(***************************************************************************)
(* wiki_sun.cpp: the single-pass backend (namespace sun::wiki)             *)
(***************************************************************************)
\* the ceiling of hd half-days plus rem micro-days, as a whole day in half-days
CeilDays(hd, rem) == [hd |-> 2 * (hd \div 2 + (rem + 999999) \div 1000000), off |-> 0]

\* ceil<days>(sys_to_julian(date) - start_of_jul_century + julian_days(0.0008))
to_julian_day(d) ==
    CHOOSE val \in
      { CeilDays(hd, (hd % 2) * 500000 + off + 800)
        : hd \in {sys_to_julian(d * 86400).hd - start_of_julian_century},
          off \in {sys_to_julian(d * 86400).off} } : TRUE

mean_solar_time(days, longitude) == AddDays(days, -julian_days(longitude))

\* 0.98560028 degrees per day
solar_mean_anomaly(mst) ==
    CHOOSE val \in
      { from_deg(FMod(3575291 + n * 9856 + (n * 28) \div 10000 + Mul(off, 9856),
                      3600000))
        : n \in {mst.hd \div 2}, off \in {mst.off} } : TRUE

equation_of_the_center(mean_anomaly) ==
    CHOOSE val \in
      { from_deg(Mul(19148, Sin(a)) + Mul(200, Sin(2 * a)) + Mul(3, Sin(3 * a)))
        : a \in {mean_anomaly} } : TRUE

ecliptic_longitude(mean_anomaly) ==
    CHOOSE val \in
      { from_deg(FMod(deg(a) + deg(equation_of_the_center(a)) + 1800000 + 1029372,
                      3600000))
        : a \in {mean_anomaly} } : TRUE

solar_transit(mst, mean_anomaly, ecl_longitude) ==
    CHOOSE val \in
      { [hd |-> start_of_julian_century + p.hd, off |-> p.off + eq_time]
        : p \in {mst},
          eq_time \in {Mul(5300, Sin(mean_anomaly)) - Mul(6900, Sin(2 * ecl_longitude))}
      } : TRUE

\* axial_tilt = Angle::from_deg(23.44)
declination_of_the_sun(ecl_longitude) ==
    from_rad(Asin(Mul(Sin(ecl_longitude), Sin(from_deg(234400)))))

\* the argument hour_angle hands to acos: num / den
wiki_hour_angle_arg(latitude, declination, time_angle) ==
    CHOOSE val \in
      { FDiv(FSub(Cos(time_angle), FMul(Sin(latitude), Sin(decl))),
             FMul(Cos(latitude), Cos(decl)))
        : decl \in {declination} } : TRUE

\* the hour angle as the article has it, without the sign of the target; C25
\* tells it from wiki_hour_angle
wiki_hour_angle_unsigned(latitude, declination, time_angle) ==
    from_rad(Acos(wiki_hour_angle_arg(latitude, declination, time_angle)))

wiki_hour_angle(latitude, declination, time_angle) ==
    from_rad(CopySign(Acos(wiki_hour_angle_arg(latitude, declination, time_angle)),
                      rad(time_angle)))

\* julian_days(hourAngle.deg() / 360.0), in micro-days
DegToDays(d) ==
    CHOOSE val \in
      { IF IsNaN(x) THEN NaN ELSE Sgn(x) * ((Abs(x) * 5) \div 18) : x \in {d} } : TRUE

\* wiki_result without the test for Noon: the hour angle of 0 degrees is added
\* to noon as well; C1 tells it from wiki_result
wiki_result_no_noon_test(true_noon, latitude, declination, elevation) ==
    IF elevation = SunTime_Midnight THEN AddDays(true_noon, 500000)
    ELSE AddDays(true_noon,
                 DegToDays(deg(wiki_hour_angle(latitude, declination, elevation))))

\* wiki_result with the declination taken 0.2 degrees further on for the dusk
\* side than for the dawn side, as an evaluation at the event would have it; C20
\* tells it from wiki_result
wiki_result_at_event(true_noon, latitude, declination, elevation) ==
    IF elevation = SunTime_Midnight THEN AddDays(true_noon, 500000)
    ELSE IF elevation # SunTime_Noon
         THEN AddDays(true_noon,
                      DegToDays(deg(wiki_hour_angle(latitude,
                                                    declination + Sgn(elevation) * 3491,
                                                    elevation))))
    ELSE true_noon

\* julian_day result = true_noon and the two branches that add to it
wiki_result(true_noon, latitude, declination, elevation) ==
    IF elevation = SunTime_Midnight THEN AddDays(true_noon, 500000)
    ELSE IF elevation # SunTime_Noon
         THEN AddDays(true_noon,
                      DegToDays(deg(wiki_hour_angle(latitude, declination, elevation))))
    ELSE true_noon

\* wiki_return without the isnan test; C2 tells it from wiki_return
wiki_return_unchecked(result) == floor_seconds(julian_to_sys(result))

\* the isnan test on result and the conversion to sys_seconds
wiki_return(result) ==
    CHOOSE val \in
      { IF IsNaN(r.off) THEN NULLOPT ELSE floor_seconds(julian_to_sys(r))
        : r \in {result} } : TRUE

\* mst, sma and el of get_sun_time
wiki_mst(longitude, d) == mean_solar_time(to_julian_day(d), longitude)
wiki_sma(longitude, d) == solar_mean_anomaly(wiki_mst(longitude, d))
wiki_el(longitude, d) == ecliptic_longitude(wiki_sma(longitude, d))

wiki_get_sun_time(latitude, longitude, d, elevation) ==
    CHOOSE val \in
      { wiki_return(wiki_result(solar_transit(mst, sma, el), latitude,
                                declination_of_the_sun(el), elevation))
        : mst \in {wiki_mst(longitude, d)}, sma \in {wiki_sma(longitude, d)},
          el \in {wiki_el(longitude, d)} } : TRUE

wiki_get_sun_times(la, lo, d) ==
    Aggregate(wiki_get_sun_time(la, lo, d, SunTime_Noon),
              wiki_get_sun_time(la, lo, d, SunTime_Midnight),
              wiki_get_sun_time(la, lo, d, SunTime_AstroDawn),
              wiki_get_sun_time(la, lo, d, SunTime_NautDawn),
              wiki_get_sun_time(la, lo, d, SunTime_CivilDawn),
              wiki_get_sun_time(la, lo, d, SunTime_Sunrise),
              wiki_get_sun_time(la, lo, d, SunTime_Sunset),
              wiki_get_sun_time(la, lo, d, SunTime_CivilDusk),
              wiki_get_sun_time(la, lo, d, SunTime_NautDusk),
              wiki_get_sun_time(la, lo, d, SunTime_AstroDusk))

(***************************************************************************)
(* sun.cpp: the enum-based snapshot's angle lookup                         *)
(***************************************************************************)
\* the enumerators of enum SunTime that sun.cpp names
SunTimeEnum ==
    {"Noon", "Midnight", "AstroDawn", "NautDawn", "CivilDawn", "Sunrise",
     "Sunset", "CivilDusk", "NautDusk", "AstroDusk"}

\* the sun.h angle of the same name (namespace SunTime)
KindAngle(k) ==
    CASE k = "Noon" -> SunTime_Noon
      [] k = "Midnight" -> SunTime_Midnight
      [] k = "AstroDawn" -> SunTime_AstroDawn
      [] k = "NautDawn" -> SunTime_NautDawn
      [] k = "CivilDawn" -> SunTime_CivilDawn
      [] k = "Sunrise" -> SunTime_Sunrise
      [] k = "Sunset" -> SunTime_Sunset
      [] k = "CivilDusk" -> SunTime_CivilDusk
      [] k = "NautDusk" -> SunTime_NautDusk
      [] k = "AstroDusk" -> SunTime_AstroDusk

\* a value of the enum's underlying type that is no enumerator
OutOfRange == "OutOfRange"

\* the outcome of time_angle when it throws std::invalid_argument
InvalidArgument == [exc |-> "invalid_argument", angle |-> 0]

Returned(a) == [exc |-> "none", angle |-> a]

\* time_angle with the sign of daytimeElev slipped in the Sunset case; C9 tells
\* it from time_angle
time_angle_sunset_slip(time_type) ==
    CASE time_type = "AstroDawn" -> Returned(from_deg(-900000 + astroTwilightElev))
      [] time_type = "NautDawn" -> Returned(from_deg(-900000 + nautTwilightElev))
      [] time_type = "CivilDawn" -> Returned(from_deg(-900000 + civilTwilightElev))
      [] time_type = "Sunrise" -> Returned(from_deg(-900000 + daytimeElev))
      [] time_type = "Sunset" -> Returned(from_deg(900000 + daytimeElev))
      [] time_type = "CivilDusk" -> Returned(from_deg(900000 - civilTwilightElev))
      [] time_type = "NautDusk" -> Returned(from_deg(900000 - nautTwilightElev))
      [] time_type = "AstroDusk" -> Returned(from_deg(900000 - astroTwilightElev))
      [] OTHER -> InvalidArgument

time_angle(time_type) ==
    CASE time_type = "AstroDawn" -> Returned(from_deg(-900000 + astroTwilightElev))
      [] time_type = "NautDawn" -> Returned(from_deg(-900000 + nautTwilightElev))
      [] time_type = "CivilDawn" -> Returned(from_deg(-900000 + civilTwilightElev))
      [] time_type = "Sunrise" -> Returned(from_deg(-900000 + daytimeElev))
      [] time_type = "Sunset" -> Returned(from_deg(900000 - daytimeElev))
      [] time_type = "CivilDusk" -> Returned(from_deg(900000 - civilTwilightElev))
      [] time_type = "NautDusk" -> Returned(from_deg(900000 - nautTwilightElev))
      [] time_type = "AstroDusk" -> Returned(from_deg(900000 - astroTwilightElev))
      [] OTHER -> InvalidArgument

(***************************************************************************)
(* The callers: the cross-check driver (main) and the benchmarks call the  *)
(* backends for a location and a UTC date; a library user may call any     *)
(* single function.  One action per call.                                   *)
(***************************************************************************)
\* how many of Dates and how many six-hour steps of a day the inputs cover
NumDates == 6
MaxHourStep == 3

\* UTC dates as days since 1970-01-01: 2022-10-15 (main), 2022-06-21,
\* 2022-12-21, 2022-05-16, 1969-06-21, 2022-10-21 (main), 2022-10-16, 2022-01-01
Dates == <<19280, 19164, 19347, 19128, -194, 19286, 19281, 18993>>

\* Bielefeld and Vostok (main), the poles, the equator, latitudes at which an
\* event just stops to occur, a place the sun passes straight over, one degree
\* from each pole, the polar circle, a southern mid-latitude; longitudes on
\* both sides of Greenwich and at the date line
Locations ==
    { [latitude |-> from_deg(520218), longitude |-> from_deg(85351)],
      [latitude |-> from_deg(-784639), longitude |-> from_deg(1068376)],
      [latitude |-> from_deg(900000), longitude |-> from_deg(0)],
      [latitude |-> from_deg(-900000), longitude |-> from_deg(85351)],
      [latitude |-> from_deg(0), longitude |-> from_deg(0)],
      [latitude |-> from_deg(823645), longitude |-> from_deg(0)],
      [latitude |-> from_deg(-657289), longitude |-> from_deg(0)],
      [latitude |-> from_rad(334236), longitude |-> from_rad(284910)],
      [latitude |-> from_deg(890000), longitude |-> from_deg(1800000)],
      [latitude |-> from_deg(-890000), longitude |-> from_deg(-1200000)],
      [latitude |-> from_deg(665000), longitude |-> from_deg(250000)],
      [latitude |-> from_deg(-339000), longitude |-> from_deg(-700000)] }

\* the angles a caller hands to get_sun_time: the predefined ones and two of its own
Elevations ==
    { FieldAngle(Fields[i]) : i \in DOMAIN Fields } \cup {from_deg(-450000), from_deg(1300000)}

VARIABLES lat, lon, date, pc, wiki, noaa, opt, elev, single, lookup, probe,
          thr, frame, hist, calc

vars == <<lat, lon, date, pc, wiki, noaa, opt, elev, single, lookup, probe,
          thr, frame, hist, calc>>

NoTimes == Thrown("unset")
NoElev == [f \in {} |-> 0]
NoSingle ==
    [backend |-> "unset", elevation |-> 0, args |-> <<>>, ha |-> <<>>,
     instant |-> SysDaysPlus(0, 0),
     result |-> NULLOPT]
NoLookup == [kind |-> "unset", out |-> Returned(0)]
NoProbe == [time_point |-> 0, called |-> FALSE, arg |-> 0, out |-> 0]

\* how many calls the threads start in all
MaxCalls == 3

\* the two threads that call the library
Threads == {1, 2}

\* the by-value parameters of a call; a function leaves those it lacks at 0
NoArgs == [lat |-> 0, lon |-> 0, date |-> 0, elevation |-> 0, time_point |-> 0]

\* before any call.  A thread: the statement it is at, its call and the call's
\* number, the field get_time is called for next, the objects the call has read
\* and written.  A frame: the parameters and locals of a call and the object it
\* returns (res: a sun_times in times, an optional or an Angle in value);
\* written names every object written so far.
Idle ==
    [thr |-> [pc |-> "idle", call |-> [fn |-> "none", args |-> NoArgs], n |-> 0,
              k |-> 0, reads |-> {}, writes |-> {}],
     frame |-> [args |-> NoArgs, j_day |-> SysDaysPlus(0, 0), a_noon |-> 0,
                j_noon |-> SysDaysPlus(0, 0), t_noon |-> SysDaysPlus(0, 0),
                res |-> [times |-> NoTimes, value |-> NULLOPT], written |-> {}]]

\* no conversion or angle operation applied yet
NoCalc == [op |-> "none"]

Init ==
    /\ \E l \in Locations : lat = l.latitude /\ lon = l.longitude
    /\ \E i \in 1..NumDates : date = Dates[i]
    /\ pc = "start"
    /\ wiki = NoTimes /\ noaa = NoTimes /\ opt = NoTimes
    /\ elev = NoElev /\ single = NoSingle /\ lookup = NoLookup /\ probe = NoProbe
    /\ thr = [t \in Threads |-> Idle.thr]
    /\ frame = [s \in Threads |-> Idle.frame]
    /\ hist = {}
    /\ calc = NoCalc

\* j_noon of noaa::get_sun_time
noaa_j_noon(longitude, d) ==
    CHOOSE val \in
      { AddDays(j_day, time_of_solar_noon(j_day, longitude))
        : j_day \in {noaa_j_day(d)} } : TRUE

\* the arguments the call's hour angles hand to acos, in the order of the calls:
\* at j_noon and at tp = j_noon + julian_days(angle1)
noaa_acos_args(latitude, longitude, d, elevation) ==
    IF elevation \in {SunTime_Noon, SunTime_Midnight} THEN <<>>
    ELSE CHOOSE val \in
           { <<noaa_hour_angle_arg(j_noon, latitude, elevation),
               noaa_hour_angle_arg(
                   AddDays(j_noon, julian_days(noaa_hour_angle(j_noon, latitude, elevation))),
                   latitude, elevation)>>
             : j_noon \in {noaa_j_noon(longitude, d)} } : TRUE

wiki_acos_args(latitude, longitude, d, elevation) ==
    IF elevation \in {SunTime_Noon, SunTime_Midnight} THEN <<>>
    ELSE <<wiki_hour_angle_arg(latitude, declination_of_the_sun(wiki_el(longitude, d)),
                               elevation)>>

\* the argument get_sun_elevation's call of elevation_from_hour_angle hands on
noaa_elevation_arg(latitude, longitude, time_point) ==
    CHOOSE val \in
      { elevation_arg(j_tp, latitude, elevation_hour_angle(j_tp, longitude, time_point))
        : j_tp \in {JulianCentury(time_point)} } : TRUE

\* bench / cross-check: the single-pass backend for the location and date
WikiGetSunTimes ==
    /\ pc = "start"
    /\ wiki' = wiki_get_sun_times(lat, lon, date)
    /\ pc' = "wiki"
    /\ UNCHANGED <<lat, lon, date, noaa, opt, elev, single, lookup, probe, thr, frame, hist, calc>>

\* main: auto times = sun::noaa::get_sun_times(lat, lon, utc_date)
NoaaGetSunTimes ==
    /\ pc = "wiki" /\ wiki.exc = "none"
    /\ noaa' = noaa_get_sun_times(lat, lon, date)
    /\ pc' = "noaa"
    /\ UNCHANGED <<lat, lon, date, wiki, opt, elev, single, lookup, probe, thr, frame, hist, calc>>

\* bench: sun::noaa::get_sun_times_opt(lat, lon, date)
NoaaGetSunTimesOpt ==
    /\ pc = "noaa" /\ noaa.exc = "none"
    /\ opt' = noaa_get_sun_times_opt(lat, lon, date)
    /\ pc' = "opt"
    /\ UNCHANGED <<lat, lon, date, wiki, noaa, elev, single, lookup, probe, thr, frame, hist, calc>>

\* main: get_elev of each field of times, printed next to the time
GetElev ==
    /\ pc = "opt"
    /\ elev' = [f \in {Fields[i] : i \in DOMAIN Fields} |->
                  IF noaa[f] # NULLOPT THEN noaa_get_sun_elevation(lat, lon, noaa[f])
                  ELSE from_deg(0)]
    /\ pc' = "elev"
    /\ UNCHANGED <<lat, lon, date, wiki, noaa, opt, single, lookup, probe, thr, frame, hist, calc>>

\* a caller asks one backend for the time of one angle
GetSunTime ==
    /\ pc = "start"
    /\ \E e \in Elevations :
         \/ single' = [backend |-> "wiki", elevation |-> e,
                       args |-> wiki_acos_args(lat, lon, date, e),
                       ha |-> IF e \in {SunTime_Noon, SunTime_Midnight} THEN <<>>
                              ELSE <<wiki_hour_angle(
                                       lat, declination_of_the_sun(wiki_el(lon, date)), e)>>,
                       instant |-> julian_to_sys(wiki_result(
                           solar_transit(wiki_mst(lon, date), wiki_sma(lon, date),
                                         wiki_el(lon, date)),
                           lat, declination_of_the_sun(wiki_el(lon, date)), e)),
                       result |-> wiki_get_sun_time(lat, lon, date, e)]
         \/ single' = [backend |-> "noaa", elevation |-> e,
                       args |-> noaa_acos_args(lat, lon, date, e),
                       ha |-> IF e \in {SunTime_Noon, SunTime_Midnight} THEN <<>>
                              ELSE CHOOSE val \in
                                     { <<noaa_hour_angle(j_noon, lat, e),
                                         noaa_hour_angle(
                                           AddDays(j_noon, julian_days(
                                               noaa_hour_angle(j_noon, lat, e))),
                                           lat, e)>>
                                       : j_noon \in {noaa_j_noon(lon, date)} } : TRUE,
                       instant |->
                           IF e = SunTime_Noon
                           THEN SysDaysPlus(date, time_of_solar_noon(noaa_j_day(date), lon))
                           ELSE IF e = SunTime_Midnight
                           THEN AddDays(SysDaysPlus(date, time_of_solar_noon(noaa_j_day(date),
                                                                            lon)), 500000)
                           ELSE SysDaysPlus(date, time_of_solar_elevation(
                                    noaa_j_noon(lon, date), lat, lon, e)),
                       result |-> noaa_get_sun_time(lat, lon, date, e)]
    /\ pc' = "single"
    /\ UNCHANGED <<lat, lon, date, wiki, noaa, opt, elev, lookup, probe, thr, frame, hist, calc>>

\* a caller of the enum-based snapshot looks an angle up
TimeAngle ==
    /\ pc = "start"
    /\ \E k \in SunTimeEnum \cup {OutOfRange} :
         lookup' = [kind |-> k, out |-> time_angle(k)]
    /\ pc' = "lookup"
    /\ UNCHANGED <<lat, lon, date, wiki, noaa, opt, elev, single, probe, thr, frame, hist, calc>>

\* a dimmer asks for the elevation at an instant of the date
GetSunElevation ==
    /\ pc = "start"
    /\ \E k \in 0..MaxHourStep :
         probe' = [time_point |-> date * 86400 + k * 21600, called |-> TRUE,
                   arg |-> noaa_elevation_arg(lat, lon, date * 86400 + k * 21600),
                   out |-> noaa_get_sun_elevation(lat, lon, date * 86400 + k * 21600)]
    /\ pc' = "probe"
    /\ UNCHANGED <<lat, lon, date, wiki, noaa, opt, elev, single, lookup, thr, frame, hist, calc>>

\* a caller converts an instant of the date to the Julian clock and back: the
\* date as sys_days, an hour of it as sys_time<hours>, 2000-01-01 12:00
JulianRoundTrip ==
    /\ pc = "start"
    /\ \E t \in {[count |-> date, period |-> 86400], [count |-> 262980, period |-> 3600]}
               \cup {[count |-> date * 24 + 6 * k + 1, period |-> 3600] : k \in 0..MaxHourStep} :
         calc' = [op |-> "julian", t |-> t, j |-> sys_to_julian_duration(t),
                  back |-> julian_to_sys_duration(sys_to_julian_duration(t))]
    /\ pc' = "calc"
    /\ UNCHANGED <<lat, lon, date, wiki, noaa, opt, elev, single, lookup, probe,
                   thr, frame, hist>>

\* a caller builds Angles from degrees and from radians, reads them back in the
\* other unit and as a day offset, and combines them with the five operators
AngleOps ==
    /\ pc = "start"
    /\ \E d \in {0, 900000, 1800000, 3600000, 3500000, -1080000, 8333},
          r \in {0, PI, lon}, b \in {from_deg(200000), lat} :
         calc' = [op |-> "angle", d |-> d, a |-> from_deg(d), r |-> r,
                  deg |-> deg(from_rad(r)), days |-> julian_days(from_deg(d)),
                  b |-> b, k |-> 2,
                  sum |-> NAdd(from_deg(d), b), diff |-> NSub(from_deg(d), b),
                  kA |-> Mul(2 * S, from_deg(d)), Ak |-> Mul(from_deg(d), 2 * S),
                  quot |-> AngleDiv(from_deg(d), 2),
                  sum_deg |-> deg(NAdd(from_deg(d), b))]
    /\ pc' = "calc"
    /\ UNCHANGED <<lat, lon, date, wiki, noaa, opt, elev, single, lookup, probe,
                   thr, frame, hist>>

\* 2000-01-01, 2023-01-01, 2023-07-02 and 2023-12-31 as days since 1970-01-01
EpochDates == {10957, 19358, 19539, 19722}

\* get_sun_time (at midnight UTC of a date) and get_sun_elevation (at an
\* instant of it) form the time point they hand to the ephemeris functions,
\* which read it in Julian centuries
EphemerisTime ==
    /\ pc = "start"
    /\ \E D \in EpochDates \cup {date}, k \in 0..MaxHourStep :
         calc' = CHOOSE val \in
           { [op |-> "century", D |-> D, sec |-> k * 21600, tp |-> tp, t |-> Centuries(tp)]
             : tp \in {JulianCentury(D * 86400 + k * 21600)} } : TRUE
    /\ pc' = "calc"
    /\ UNCHANGED <<lat, lon, date, wiki, noaa, opt, elev, single, lookup, probe, thr, frame, hist>>

\* UTC offsets of time zones in seconds: -12h, -5h, 0, +2h, +5:45, +6h
\* (Antarctica/Vostok, main), +12h, +12:45, +13h, +14h
ZoneOffsets == {-43200, -18000, 0, 7200, 20700, 21600, 43200, 45900, 46800, 50400}

\* the local times of day of main's dates in seconds (4h, 12h, 20h, 22h, 23h,
\* 0h) and the last second of the day
LocalTimes == {14400, 43200, 72000, 79200, 82800, 0, 86399}

\* zoned_seconds{zone, local_date}.get_sys_time(): the UTC instant of a local
\* time in a zone with the given offset
get_sys_time(local_date, offset) == local_date - offset

\* the day of the UTC instant itself; C30 tells it from utc_date
utc_date_of_instant(local_date, offset) == get_sys_time(local_date, offset) \div 86400

\* main: the UTC day of a local time, floor<days>(date.get_sys_time() + offset)
\* with the offset reduced by 24h when it is above 12h
utc_date(local_date, offset) ==
    CHOOSE val \in
      { (get_sys_time(local_date, offset) + off) \div 86400
        : off \in {IF offset > 43200 THEN offset - 86400 ELSE offset} } : TRUE

\* the sunrise test (main) takes a local time of the civil day in a zone,
\* derives the UTC day and asks noaa for the times of that day; tbl holds
\* what noaa returns for the days the instant and the local time can fall on
SunriseTest ==
    /\ pc = "start"
    /\ \E tbl \in {[d \in {date - 1, date, date + 1} |-> noaa_get_sun_times(lat, lon, d)]} :
         \E offset \in ZoneOffsets, tod \in LocalTimes :
           \E ud \in {utc_date(date * 86400 + tod, offset)} :
             calc' = [op |-> "sunrise_test", offset |-> offset,
                      local_date |-> date * 86400 + tod, utc_date |-> ud,
                      times |-> tbl[ud]]
    /\ pc' = "calc"
    /\ UNCHANGED <<lat, lon, date, wiki, noaa, opt, elev, single, lookup, probe, thr, frame, hist>>

\* the kinds in the order get_sun_times and get_sun_times2 ask for them
EnumOrder ==
    <<"Noon", "Midnight", "AstroDawn", "NautDawn", "CivilDawn", "Sunrise",
      "Sunset", "CivilDusk", "NautDusk", "AstroDusk">>

\* the computation behind a snapshot's get_sun_time: sun.cpp computes as the
\* wiki backend does, get_sun_times2's file as the noaa backend does
SnapshotTime(fn, latitude, longitude, d, angle) ==
    IF fn = "get_sun_times"
    THEN wiki_get_sun_time(latitude, longitude, d, angle)
    ELSE noaa_get_sun_time(latitude, longitude, d, angle)

\* the static get_sun_time with only Midnight handled before the lookup; C28
\* tells it from enum_get_sun_time
enum_get_sun_time_no_noon_case(fn, latitude, longitude, d, type) ==
    IF type = "Midnight"
    THEN [type |-> type, looked |-> <<>>, exc |-> "none",
          result |-> SnapshotTime(fn, latitude, longitude, d, KindAngle(type))]
    ELSE CHOOSE val \in
      { [type |-> type, looked |-> <<type>>, exc |-> ta.exc,
         result |-> IF ta.exc = "none"
                    THEN SnapshotTime(fn, latitude, longitude, d, ta.angle)
                    ELSE NULLOPT]
        : ta \in {time_angle(type)} } : TRUE

\* the static get_sun_time(latitude, longitude, date, SunTime type) of the
\* enum-based snapshots: which kinds it looked up, what the lookup threw, and
\* the time it returned
enum_get_sun_time(fn, latitude, longitude, d, type) ==
    IF type \in {"Noon", "Midnight"}
    THEN [type |-> type, looked |-> <<>>, exc |-> "none",
          result |-> SnapshotTime(fn, latitude, longitude, d, KindAngle(type))]
    ELSE CHOOSE val \in
      { [type |-> type, looked |-> <<type>>, exc |-> ta.exc,
         result |-> IF ta.exc = "none"
                    THEN SnapshotTime(fn, latitude, longitude, d, ta.angle)
                    ELSE NULLOPT]
        : ta \in {time_angle(type)} } : TRUE

\* the braced initializer of get_sun_times and get_sun_times2: the calls are
\* made in order up to the first that throws, and value() of an absent noon
\* or midnight throws as well
EnumAggregate(fn, all) ==
    CHOOSE val \in
      { [op |-> "enum_times", fn |-> fn,
         calls |-> SubSeq(all, 1, made),
         exc |-> IF all[made].exc # "none" THEN all[made].exc
                 ELSE IF all[1].result = NULLOPT \/ all[2].result = NULLOPT
                      THEN "bad_optional_access" ELSE "none"]
        : made \in {CHOOSE n \in 1..10 :
                      /\ n < 10 => all[n].exc # "none"
                      /\ \A i \in 1..(n - 1) : all[i].exc = "none"} }
      : TRUE

\* a caller of the enum-based snapshot asks for the ten times of the date
GetSunTimesEnum ==
    /\ pc = "start"
    /\ \E fn \in {"get_sun_times", "get_sun_times2"} :
         \E all \in {[i \in 1..10 |-> enum_get_sun_time(fn, lat, lon, date, EnumOrder[i])]} :
           calc' = EnumAggregate(fn, all)
    /\ pc' = "calc"
    /\ UNCHANGED <<lat, lon, date, wiki, noaa, opt, elev, single, lookup, probe, thr, frame, hist>>

\* the solar noon of the date at the longitude and at longitude 0, as both
\* backends compute it: noaa's offset from UTC midnight, wiki's mean solar time
\* and transit
SolarNoonAt ==
    /\ pc = "start"
    /\ calc' = [op |-> "noon", L |-> lon,
                noon |-> time_of_solar_noon(noaa_j_day(date), lon),
                noon0 |-> time_of_solar_noon(noaa_j_day(date), from_deg(0)),
                mst |-> wiki_mst(lon, date), mst0 |-> wiki_mst(from_deg(0), date),
                transit |-> solar_transit(wiki_mst(lon, date), wiki_sma(lon, date),
                                          wiki_el(lon, date)),
                transit0 |-> solar_transit(wiki_mst(from_deg(0), date),
                                           wiki_sma(from_deg(0), date),
                                           wiki_el(from_deg(0), date))]
    /\ pc' = "calc"
    /\ UNCHANGED <<lat, lon, date, wiki, noaa, opt, elev, single, lookup, probe,
                   thr, frame, hist>>

\* what an oracle reports for the date: noon and midnight, and a time for each
\* other event unless it is in absent, where it reports the value none
OracleReport(absent, none) ==
    [i \in DOMAIN Fields |->
       IF Fields[i] \in absent THEN none ELSE date * 86400 + 3600 * i]

\* the map lambda of get_sun_times_c without the isnan test; C21 tells it from
\* c_map
c_map_unchecked(tp) == IF IsNaN(tp) THEN Indefinite ELSE tp

\* the map lambda of get_sun_times_c: a double of whole seconds, or NaN
c_map(tp) == IF ~IsNaN(tp) THEN tp ELSE NULLOPT

\* the map lambda of get_sun_times_rust: an int64_t, 0 for an event that does
\* not occur
rust_map(tp) == IF tp # 0 THEN tp ELSE NULLOPT

\* get_sun_times_c: solar_table_fill's doubles through map, noon and midnight
\* through the cast alone (a negative double cast to size_t is undefined: the
\* count wraps back to the negative value or comes out as 0)
GetSunTimesC ==
    /\ pc = "start"
    /\ \E absent \in {a \in SUBSET TwilightFields : Cardinality(a) \in {0, 1, 2, 8}},
          wraps \in BOOLEAN :
         /\ date >= 0 => wraps
         /\ calc' = [op |-> "oracle_c", none |-> NaN,
                     report |-> OracleReport(absent, NaN),
                     times |-> [f \in {Fields[i] : i \in DOMAIN Fields} |->
                        CHOOSE val \in
                          { IF i <= 2 THEN (IF wraps THEN r ELSE 0)
                            ELSE IF c_map(r) # NULLOPT /\ ~wraps THEN 0
                            ELSE c_map(r)
                            : i \in {j \in DOMAIN Fields : Fields[j] = f},
                              r \in {OracleReport(absent, NaN)[k] :
                                      k \in {j \in DOMAIN Fields : Fields[j] = f}} }
                          : TRUE]]
    /\ pc' = "calc"
    /\ UNCHANGED <<lat, lon, date, wiki, noaa, opt, elev, single, lookup, probe,
                   thr, frame, hist>>

\* get_sun_times_rust: get_sun_times_r's counts through map, noon and midnight
\* as they are
GetSunTimesRust ==
    /\ pc = "start"
    /\ \E absent \in {a \in SUBSET TwilightFields : Cardinality(a) \in {0, 1, 2, 8}} :
         calc' = [op |-> "oracle_rust", none |-> 0,
                  report |-> OracleReport(absent, 0),
                  times |-> [f \in {Fields[i] : i \in DOMAIN Fields} |->
                     CHOOSE val \in
                       { IF i <= 2 THEN OracleReport(absent, 0)[i]
                         ELSE rust_map(OracleReport(absent, 0)[i])
                         : i \in {j \in DOMAIN Fields : Fields[j] = f} } : TRUE]]
    /\ pc' = "calc"
    /\ UNCHANGED <<lat, lon, date, wiki, noaa, opt, elev, single, lookup, probe,
                   thr, frame, hist>>

Next ==
    \/ WikiGetSunTimes
    \/ NoaaGetSunTimes
    \/ NoaaGetSunTimesOpt
    \/ GetElev
    \/ GetSunTime
    \/ TimeAngle
    \/ GetSunElevation
    \/ JulianRoundTrip
    \/ AngleOps
    \/ SolarNoonAt
    \/ GetSunTimesC
    \/ GetSunTimesRust
    \/ GetSunTimesEnum
    \/ EphemerisTime
    \/ SunriseTest

Spec == Init /\ [][Next]_vars

(***************************************************************************)
(* Calls from several threads.  The library takes no lock and starts no    *)
(* thread; its callers may.  A call's parameters are passed by value and   *)
(* its locals have automatic storage, so the model gives every call a      *)
(* frame and runs get_sun_times_opt one statement group at a time; the     *)
(* other functions run in two steps, the parameter passing and the body.   *)
(***************************************************************************)
\* the calls the threads make: Bielefeld on 2022-10-15 and Vostok on 2022-06-21
CallInputs ==
    { [fn |-> "noaa::get_sun_times_opt",
       args |-> [NoArgs EXCEPT !.lat = from_deg(520218), !.lon = from_deg(85351),
                               !.date = 19280]],
      [fn |-> "noaa::get_sun_times_opt",
       args |-> [NoArgs EXCEPT !.lat = from_deg(-784639), !.lon = from_deg(1068376),
                               !.date = 19164]],
      [fn |-> "noaa::get_sun_times",
       args |-> [NoArgs EXCEPT !.lat = from_deg(520218), !.lon = from_deg(85351),
                               !.date = 19280]],
      [fn |-> "noaa::get_sun_time",
       args |-> [NoArgs EXCEPT !.lat = from_deg(-784639), !.lon = from_deg(1068376),
                               !.date = 19164, !.elevation = SunTime_Sunrise]],
      [fn |-> "wiki::get_sun_time",
       args |-> [NoArgs EXCEPT !.lat = from_deg(520218), !.lon = from_deg(85351),
                               !.date = 19280, !.elevation = SunTime_Sunset]],
      [fn |-> "noaa::get_sun_elevation",
       args |-> [NoArgs EXCEPT !.lat = from_deg(520218), !.lon = from_deg(85351),
                               !.time_point = 19280 * 86400 + 43200]] }

\* the objects of every call in one place, as static storage would have them;
\* C12 tells it from ResSlot
ResSlot_static(t) == 1

\* where the objects of the call running in thread t live: parameters, locals
\* and res are automatic, each call has its own
ResSlot(t) == t

\* The values of the library's functions at the arguments that come from
\* CallInputs, each evaluated once; a step that meets other arguments
\* evaluates the function.
\* time_of_solar_noon(j_day, lon)
SolarNoonTable ==
    [a \in {<<noaa_j_day(c.args.date), c.args.lon>> : c \in CallInputs} |->
       time_of_solar_noon(a[1], a[2])]

\* get_time(elevation) of get_sun_times_opt, with the j_noon, lat, lon and date
\* it captures
GetTimeTable ==
    [a \in { <<AddDays(noaa_j_day(c.args.date),
                       SolarNoonTable[<<noaa_j_day(c.args.date), c.args.lon>>]),
               c.args.lat, c.args.lon, c.args.date, FieldAngle(f)>>
             : c \in CallInputs, f \in TwilightFields } |->
       opt_get_time(a[1], a[2], a[3], a[4], a[5])]

\* what a function returns for an argument record when nothing else runs, at
\* every function and every argument record of CallInputs
Alone ==
    [c \in {[fn |-> i.fn, args |-> j.args] : i \in CallInputs, j \in CallInputs} |->
       CASE c.fn = "noaa::get_sun_times_opt" ->
              [times |-> noaa_get_sun_times_opt(c.args.lat, c.args.lon, c.args.date),
               value |-> NULLOPT]
         [] c.fn = "noaa::get_sun_times" ->
              [times |-> noaa_get_sun_times(c.args.lat, c.args.lon, c.args.date),
               value |-> NULLOPT]
         [] c.fn = "noaa::get_sun_time" ->
              [times |-> NoTimes,
               value |-> noaa_get_sun_time(c.args.lat, c.args.lon, c.args.date,
                                           c.args.elevation)]
         [] c.fn = "wiki::get_sun_time" ->
              [times |-> NoTimes,
               value |-> wiki_get_sun_time(c.args.lat, c.args.lon, c.args.date,
                                           c.args.elevation)]
         [] c.fn = "noaa::get_sun_elevation" ->
              [times |-> NoTimes,
               value |-> noaa_get_sun_elevation(c.args.lat, c.args.lon,
                                                c.args.time_point)]]

InitCalls ==
    /\ lat = from_deg(0) /\ lon = from_deg(0) /\ date = Dates[1]
    /\ pc = "calls"
    /\ wiki = NoTimes /\ noaa = NoTimes /\ opt = NoTimes
    /\ elev = NoElev /\ single = NoSingle /\ lookup = NoLookup /\ probe = NoProbe
    /\ thr = [t \in Threads |-> Idle.thr]
    /\ frame = [s \in Threads |-> Idle.frame]
    /\ hist = {}
    /\ calc = NoCalc

\* a thread calls a function: the arguments are copied into the parameters
Call(t) ==
    /\ pc = "calls" /\ thr[t].pc = "idle"
    /\ \E c \in CallInputs, n \in 1..MaxCalls :
         /\ n = Cardinality(hist) + Cardinality({u \in Threads : thr[u].pc # "idle"}) + 1
         /\ frame' = [frame EXCEPT ![ResSlot(t)].args = c.args,
                                   ![ResSlot(t)].written = @ \cup {"args"}]
         /\ thr' = [thr EXCEPT ![t] =
                      [pc |-> IF c.fn = "noaa::get_sun_times_opt" THEN "begin" ELSE "body",
                       call |-> c, n |-> n, k |-> 3, reads |-> {}, writes |-> {"args"}]]
    /\ UNCHANGED <<lat, lon, date, pc, wiki, noaa, opt, elev, single, lookup, probe, hist, calc>>

\* const auto j_day = ...; sun_times res{}; (noon and midnight at the epoch, the
\* eight optionals empty)
OptBegin(t) ==
    /\ pc = "calls" /\ thr[t].pc = "begin"
    /\ frame' = [frame EXCEPT
                   ![ResSlot(t)].j_day = noaa_j_day(frame[ResSlot(t)].args.date),
                   ![ResSlot(t)].res =
                       [times |-> SunTimes(0, 0, NULLOPT, NULLOPT, NULLOPT, NULLOPT,
                                           NULLOPT, NULLOPT, NULLOPT, NULLOPT),
                        value |-> NULLOPT],
                   ![ResSlot(t)].written = @ \cup {"j_day", "res"}]
    /\ thr' = [thr EXCEPT ![t].pc = "noon", ![t].reads = @ \cup {"args"},
                          ![t].writes = @ \cup {"j_day", "res"}]
    /\ UNCHANGED <<lat, lon, date, pc, wiki, noaa, opt, elev, single, lookup, probe, hist, calc>>

\* a_noon as a static thread_local: initialized by the first call that gets
\* here and kept by every later one; C11 tells it from opt_a_noon
opt_a_noon_static(f) ==
    IF "a_noon" \in f.written THEN f.a_noon
    ELSE IF <<f.j_day, f.args.lon>> \in DOMAIN SolarNoonTable
         THEN SolarNoonTable[<<f.j_day, f.args.lon>>]
    ELSE time_of_solar_noon(f.j_day, f.args.lon)

\* auto a_noon = time_of_solar_noon(j_day, lon);
opt_a_noon(f) ==
    IF <<f.j_day, f.args.lon>> \in DOMAIN SolarNoonTable
    THEN SolarNoonTable[<<f.j_day, f.args.lon>>]
    ELSE time_of_solar_noon(f.j_day, f.args.lon)

\* auto a_noon = ...; auto j_noon = j_day + a_noon; auto t_noon = date + a_noon;
\* res.noon = floor<seconds>(t_noon);
\* res.midnight = floor<seconds>(t_noon + julian_days(0.5));
OptNoon(t) ==
    /\ pc = "calls" /\ thr[t].pc = "noon"
    /\ \E f \in {frame[ResSlot(t)]} :
         \E a \in {opt_a_noon(f)} :
           frame' = [frame EXCEPT ![ResSlot(t)] =
                       [f EXCEPT !.a_noon = a, !.j_noon = AddDays(f.j_day, a),
                                 !.t_noon = SysDaysPlus(f.args.date, a),
                                 !.res.times.noon =
                                     floor_seconds(SysDaysPlus(f.args.date, a)),
                                 !.res.times.midnight =
                                     floor_seconds(AddDays(SysDaysPlus(f.args.date, a),
                                                           500000)),
                                 !.written = @ \cup {"a_noon", "j_noon", "t_noon"}]]
    /\ thr' = [thr EXCEPT ![t].pc = "get_time",
                          ![t].reads = @ \cup {"args", "j_day", "a_noon", "t_noon"},
                          ![t].writes = @ \cup {"a_noon", "j_noon", "t_noon", "res"}]
    /\ UNCHANGED <<lat, lon, date, pc, wiki, noaa, opt, elev, single, lookup, probe, hist, calc>>

\* res.<field> = get_time(SunTime::<Field>): the lambda reads j_noon, lat, lon
\* and date of the enclosing call through its reference captures
OptGetTime(t) ==
    /\ pc = "calls" /\ thr[t].pc = "get_time"
    /\ \E f \in {frame[ResSlot(t)]} :
         \E a \in {<<f.j_noon, f.args.lat, f.args.lon, f.args.date,
                     FieldAngle(Fields[thr[t].k])>>} :
           frame' = [frame EXCEPT ![ResSlot(t)].res.times[Fields[thr[t].k]] =
                       IF a \in DOMAIN GetTimeTable THEN GetTimeTable[a]
                       ELSE opt_get_time(a[1], a[2], a[3], a[4], a[5])]
    /\ thr' = [thr EXCEPT ![t].pc = IF thr[t].k = Len(Fields) THEN "return" ELSE "get_time",
                          ![t].k = @ + 1,
                          ![t].reads = @ \cup {"args", "j_noon"},
                          ![t].writes = @ \cup {"res"}]
    /\ UNCHANGED <<lat, lon, date, pc, wiki, noaa, opt, elev, single, lookup, probe, hist, calc>>

\* the body of a function that is run as one step, on its own parameters
Body(t) ==
    /\ pc = "calls" /\ thr[t].pc = "body"
    /\ frame' = [frame EXCEPT
                   ![ResSlot(t)].res =
                       Alone[[fn |-> thr[t].call.fn, args |-> frame[ResSlot(t)].args]],
                   ![ResSlot(t)].written = @ \cup {"res"}]
    /\ thr' = [thr EXCEPT ![t].pc = "return", ![t].reads = @ \cup {"args"},
                          ![t].writes = @ \cup {"res"}]
    /\ UNCHANGED <<lat, lon, date, pc, wiki, noaa, opt, elev, single, lookup, probe, hist, calc>>

\* return res; the caller keeps what it received
Return(t) ==
    /\ pc = "calls" /\ thr[t].pc = "return"
    /\ hist' = hist \cup {[n |-> thr[t].n, thread |-> t, call |-> thr[t].call,
                           result |-> frame[ResSlot(t)].res]}
    /\ thr' = [thr EXCEPT ![t] = Idle.thr]
    /\ UNCHANGED <<lat, lon, date, pc, wiki, noaa, opt, elev, single, lookup, probe, frame, calc>>

NextCalls ==
    \E t \in Threads :
      \/ Call(t)
      \/ OptBegin(t)
      \/ OptNoon(t)
      \/ OptGetTime(t)
      \/ Body(t)
      \/ Return(t)

SpecCalls == InitCalls /\ [][NextCalls]_vars

(***************************************************************************)
(* Properties                                                              *)
(***************************************************************************)
\* the three get_sun_times results, once the call has been made
Results == {r \in {wiki, noaa, opt} : r.exc # "unset"}

\* the fields in the order of the day
DayOrder ==
    <<"astro_dawn", "naut_dawn", "civil_dawn", "sunrise", "noon", "sunset",
      "civil_dusk", "naut_dusk", "astro_dusk", "midnight">>

\* C1: computing Noon or Midnight never takes the absent path: get_sun_time of
\* either backend returns an instant for these two angles, and the noon and
\* midnight fields of every get_sun_times result (wiki, noaa, noaa-opt) hold an
\* instant, whatever happens to the eight twilight fields.
C1_NoonMidnightPresent ==
    /\ single.backend # "unset" /\ single.elevation \in {SunTime_Noon, SunTime_Midnight}
         => single.result \notin {NULLOPT, Indefinite}
    /\ \A r \in Results :
         /\ r.exc # "bad_optional_access"
         /\ r.noon \notin {NULLOPT, Indefinite}
         /\ r.midnight \notin {NULLOPT, Indefinite}

\* the two-pass backend at a place and date where none of the eight events occurs
C1_Witness ==
    /\ pc = "noaa"
    /\ \A f \in TwilightFields : noaa[f] = NULLOPT
    /\ noaa.noon > date * 86400
    /\ noaa.midnight > noaa.noon

\* C2: when an arccosine argument of the call's hour angles lies outside [-1, 1]
\* (or is not a number), get_sun_time returns nullopt; the NaN is never converted
\* to an instant; a present result is a whole second within two days of the
\* requested date, never a sentinel.
C2_AbsentEventIsNullopt ==
    single.backend # "unset" =>
      /\ (\E i \in DOMAIN single.args :
            ~Finite(single.args[i]) \/ single.args[i] > S \/ single.args[i] < -S)
           => single.result = NULLOPT
      /\ single.result # Indefinite
      /\ single.result # NULLOPT =>
           /\ single.result >= (date - 1) * 86400
           /\ single.result <= (date + 2) * 86400

\* sunrise asked of the two-pass backend where the sun does not rise that day
C2_Witness ==
    /\ single.backend = "noaa"
    /\ single.elevation = SunTime_Sunrise
    /\ Len(single.args) = 2
    /\ Finite(single.args[1]) /\ single.args[1] > S
    /\ single.result = NULLOPT

\* C3: get_sun_times of wiki, noaa and noaa-opt returns a sun_times value and
\* throws nothing, the poles included.
C3_NoBackendThrows ==
    /\ \A r \in {wiki, noaa, opt} : r.exc \in {"unset", "none"}
    /\ pc = "wiki" => wiki.exc = "none"
    /\ pc = "noaa" => noaa.exc = "none"
    /\ pc \in {"opt", "elev"} => opt.exc = "none"

\* all three backends have returned at a pole, where cos(latitude) is zero
C3_Witness ==
    /\ pc = "opt"
    /\ lat \in {from_deg(900000), from_deg(-900000)}
    /\ wiki.exc = "none" /\ noaa.exc = "none" /\ opt.exc = "none"

\* C4 as claimed: the present fields of every result are strictly ordered
\* AstroDawn < NautDawn < CivilDawn < Sunrise < Noon < Sunset < CivilDusk <
\* NautDusk < AstroDusk < Midnight.
C4_StrictOrder ==
    \A r \in Results :
      r.exc = "none" =>
        \A i \in DOMAIN DayOrder, j \in DOMAIN DayOrder :
          i < j /\ r[DayOrder[i]] # NULLOPT /\ r[DayOrder[j]] # NULLOPT
            => r[DayOrder[i]] < r[DayOrder[j]]

\* C5 as claimed: get_sun_elevation at the instant get_sun_time returned for a
\* target angle E is E, to within half a degree.
C5_RoundTrip ==
    pc = "elev" =>
      \A f \in DOMAIN elev :
        noaa[f] # NULLOPT =>
          /\ Finite(elev[f])
          /\ Abs(elev[f] - FieldAngle(f)) <= 8727

\* C6 as claimed: get_sun_elevation returns a defined (non-NaN) angle for every
\* location and instant.
C6_ElevationTotal ==
    /\ probe.called => ~IsNaN(probe.out)
    /\ pc = "elev" => \A f \in DOMAIN elev : ~IsNaN(elev[f])

C8_OptEqualsPlain ==
    pc \in {"opt", "elev"} =>
      /\ opt.exc = noaa.exc
      /\ \A i \in DOMAIN Fields : opt[Fields[i]] = noaa[Fields[i]]

\* both called where some events occur and others do not
C8_Witness ==
    /\ pc = "opt"
    /\ opt.exc = "none"
    /\ opt.astro_dawn = NULLOPT /\ noaa.astro_dawn = NULLOPT
    /\ opt.sunrise # NULLOPT /\ opt.sunrise = noaa.sunrise
    /\ opt.sunset # NULLOPT /\ opt.sunset = noaa.sunset

\* C9: each dawn kind is -(90 + d) degrees and the matching dusk kind +(90 + d)
\* degrees, d = 18, 12, 6, 0.833; the sun.h angles of the ten kinds are pairwise
\* distinct (so the eight differ from each other and from Noon = 0 and
\* Midnight = 180 degrees); time_angle returns the sun.h angle of the same name.
C9_TwilightTargets ==
    /\ lookup.kind \in SunTimeEnum \ {"Noon", "Midnight"} =>
         /\ lookup.out = Returned(KindAngle(lookup.kind))
         /\ lookup.out.angle =
              CASE lookup.kind = "AstroDawn" -> -from_deg(900000 + 180000)
                [] lookup.kind = "NautDawn" -> -from_deg(900000 + 120000)
                [] lookup.kind = "CivilDawn" -> -from_deg(900000 + 60000)
                [] lookup.kind = "Sunrise" -> -from_deg(900000 + 8330)
                [] lookup.kind = "Sunset" -> from_deg(900000 + 8330)
                [] lookup.kind = "CivilDusk" -> from_deg(900000 + 60000)
                [] lookup.kind = "NautDusk" -> from_deg(900000 + 120000)
                [] lookup.kind = "AstroDusk" -> from_deg(900000 + 180000)
         /\ \A k \in SunTimeEnum \ {lookup.kind} : KindAngle(k) # lookup.out.angle
    /\ KindAngle("Noon") = from_deg(0)
    /\ KindAngle("Midnight") = from_deg(1800000)

\* the lookup of a dusk kind has returned its angle
C9_Witness ==
    /\ pc = "lookup"
    /\ lookup.kind = "NautDusk"
    /\ lookup.out.exc = "none"
    /\ lookup.out.angle = SunTime_NautDusk

\* C10 as claimed: time_angle throws invalid_argument only for a value outside
\* the enumeration, never for an enumerator.
C10_ThrowsOnlyOutOfRange ==
    pc = "lookup" /\ lookup.out.exc = "invalid_argument" => lookup.kind \notin SunTimeEnum

\* C11: two calls of the same function (get_sun_time, get_sun_times,
\* get_sun_times_opt, get_sun_elevation) with identical arguments return
\* identical results, whatever calls the threads made before or between them:
\* nothing a call wrote is left for a later call to read.
C11_Determinism ==
    \A h1 \in hist, h2 \in hist :
      h1.call = h2.call => h1.result = h2.result

\* one thread called get_sun_times_opt twice for Vostok and made a call for
\* another place between the two; both Vostok results lack sunrise
C11_Witness ==
    \E h1 \in hist, h2 \in hist, h3 \in hist :
      /\ h1.n < h2.n /\ h2.n < h3.n
      /\ h1.thread = h2.thread /\ h2.thread = h3.thread
      /\ h1.call = h3.call /\ h2.call # h1.call
      /\ h1.call.fn = "noaa::get_sun_times_opt" /\ h2.call.fn = "noaa::get_sun_times_opt"
      /\ h1.result = h3.result
      /\ h1.result.times.sunrise = NULLOPT /\ h2.result.times.sunrise # NULLOPT
      /\ h1.result.times.noon > h1.call.args.date * 86400

\* C12: calls made from several threads without synchronization, in every
\* interleaving of their steps, each return what the same call returns when it
\* runs alone, and no call writes an object that another running call reads or
\* writes.
C12_ThreadsIndependent ==
    /\ \A h \in hist : h.result = Alone[h.call]
    /\ \A t \in Threads :
         thr[t].pc = "return" => frame[ResSlot(t)].res = Alone[thr[t].call]
    /\ \A t \in Threads, u \in Threads :
         t # u /\ thr[t].pc # "idle" /\ thr[u].pc # "idle" =>
           {<<ResSlot(t), x>> : x \in thr[t].writes}
             \cap {<<ResSlot(u), x>> : x \in thr[u].reads \cup thr[u].writes} = {}

\* two get_sun_times_opt calls for different places ran at the same time and
\* both are about to return, each with its own ten fields
C12_Witness ==
    \E t \in Threads, u \in Threads :
      /\ t # u
      /\ thr[t].pc = "return" /\ thr[u].pc = "return"
      /\ thr[t].call.fn = "noaa::get_sun_times_opt"
      /\ thr[u].call.fn = "noaa::get_sun_times_opt"
      /\ thr[t].call # thr[u].call
      /\ frame[ResSlot(t)].res.times.sunrise # NULLOPT
      /\ frame[ResSlot(u)].res.times.sunrise = NULLOPT
      /\ frame[ResSlot(u)].res.times.noon # frame[ResSlot(t)].res.times.noon

\* C13: every instant get_sun_time returns (wiki and noaa, Noon and Midnight
\* included) is the greatest whole second not after the instant the call
\* computed, also before 1970-01-01 where the count of seconds is negative.
C13_FloorToSecond ==
    single.backend # "unset" /\ single.result # NULLOPT =>
      /\ Finite(single.instant.off)
      /\ (single.result - single.instant.hd * 43200) * 625 <= single.instant.off * 54
      /\ single.instant.off * 54 < (single.result - single.instant.hd * 43200 + 1) * 625

\* a sunrise of 1969 from the two-pass backend: a negative count of seconds
\* whose computed instant is no whole second
C13_Witness ==
    /\ single.backend = "noaa" /\ single.elevation = SunTime_Sunrise
    /\ date < 0 /\ single.result # NULLOPT /\ single.result < 0
    /\ (single.instant.off * 54) % 625 # 0

\* C14: sys_to_julian adds jdiff = 2440587.5 days and julian_to_sys subtracts
\* it: the round trip gives the instant back, 2000-01-01 12:00 UTC is Julian day
\* 2451545.0, and a whole-day instant becomes a count of whole hours.
C14_JulianRoundTrip ==
    calc.op = "julian" =>
      /\ calc.back.count * (calc.back.period \div 3600)
           = calc.t.count * (calc.t.period \div 3600)
      /\ 2 * (calc.j.count * (calc.j.period \div 3600)
              - calc.t.count * (calc.t.period \div 3600)) = 48 * 2440587 + 24
      /\ calc.t.period = 86400 => calc.j.period = 3600
      /\ calc.t = [count |-> 262980, period |-> 3600] => calc.j.count = 24 * 2451545

\* a date of 1969 as sys_days went to the Julian clock, as a count of hours, and
\* came back
C14_Witness ==
    /\ calc.op = "julian"
    /\ calc.t.period = 86400 /\ calc.t.count < 0
    /\ calc.j.period = 3600 /\ calc.j.count > 0
    /\ calc.back.count = 24 * calc.t.count

\* C15: the views of an Angle agree: from_deg(d).rad() is d * pi / 180 and
\* from_rad(r).deg() is r * 180 / pi, to the resolution of the number model, with
\* 0, 90, 180 and 360 degrees at 0, pi/2, pi and 2*pi; the day offset of an Angle
\* is rad / (2*pi), 360 degrees being one day and 180 degrees half a day.
C15_AngleViews ==
    calc.op = "angle" =>
      /\ Abs(calc.a * 180 - Mul(calc.d, PI) * 100) <= 600
      /\ Abs(Mul(calc.deg, PI) * 100 - calc.r * 180) <= 600
      /\ calc.d = 0 => calc.a = 0
      /\ calc.d = 900000 => calc.a = HalfPi
      /\ calc.d = 1800000 => calc.a = PI
      /\ calc.d = 3600000 => calc.a = TwoPi
      /\ calc.r = 0 => calc.deg = 0
      /\ calc.r = PI => Abs(calc.deg - 1800000) <= 1
      /\ Abs(Mul(calc.days, TwoPi) - calc.a) <= 7
      /\ calc.d = 3600000 => calc.days = S
      /\ calc.d = 1800000 => calc.days = S \div 2

\* 180 degrees were built from degrees and read as half a day while pi radians
\* were read as 180 degrees
C15_Witness ==
    /\ calc.op = "angle"
    /\ calc.d = 1800000 /\ calc.a = PI /\ calc.days = 500000
    /\ calc.r = PI /\ calc.deg > 1790000

\* C16: a + b, a - b, k * a, a * k and a / k are the Angles with the sum, the
\* difference, the product and the quotient of the radian values, never reduced
\* into a range: 350 degrees + 20 degrees is 370 degrees.
C16_NoNormalization ==
    calc.op = "angle" =>
      /\ calc.sum = calc.a + calc.b
      /\ calc.diff = calc.a - calc.b
      /\ calc.kA = calc.k * calc.a
      /\ calc.Ak = calc.a * calc.k
      /\ Abs(calc.quot * calc.k - calc.a) < calc.k
      /\ calc.d = 3500000 /\ calc.b = from_deg(200000)
           => Abs(calc.sum_deg - 3700000) <= 3

\* 350 degrees + 20 degrees gave an Angle above one turn, and -108 degrees - b one
\* below zero
C16_Witness ==
    /\ calc.op = "angle"
    /\ calc.d = 3500000 /\ calc.b = from_deg(200000)
    /\ calc.sum > TwoPi /\ calc.sum_deg > 3600000
    /\ calc.kA > 2 * TwoPi - PI

\* C17: longitude is positive east: the solar noon at longitude L is L/360 of a
\* day earlier in UTC than the one at longitude 0, up to the change of the
\* equation of time between the two instants (under 200 micro-days); noaa's noon
\* is (180 degrees - L - eot)/360 days after UTC midnight, the equation of time
\* staying under 4.5 degrees, and wiki's mean solar time is the day number less
\* L/360.
C17_PositiveEast ==
    calc.op = "noon" =>
      /\ Abs(calc.noon0 - calc.noon - julian_days(calc.L)) <= 200
      /\ Abs(calc.noon - julian_days(Noon - calc.L)) <= julian_days(from_deg(45000))
      /\ calc.L >= from_deg(10000) => calc.noon < calc.noon0
      /\ calc.L <= from_deg(-10000) => calc.noon > calc.noon0
      /\ calc.mst.hd = calc.mst0.hd
      /\ calc.mst.off = calc.mst0.off - julian_days(calc.L)
      /\ calc.transit.hd = calc.transit0.hd
      /\ Abs(calc.transit0.off - calc.transit.off - julian_days(calc.L)) <= 200

\* at 106.8376 degrees east the solar noon came more than a quarter of a day
\* before the one of Greenwich in both backends
C17_Witness ==
    /\ calc.op = "noon"
    /\ calc.L = from_deg(1068376)
    /\ calc.noon0 - calc.noon > 250000
    /\ calc.transit0.off - calc.transit.off > 250000

\* C18: every hour angle a get_sun_time call computes has the arccosine value as
\* its magnitude (NaN when the arccosine is NaN) and the sign of the target
\* angle: within [-180, 0] degrees for a dawn-side target, within [0, 180]
\* degrees for a dusk-side target, in the hour_angle of wiki and of noaa.
C18_HourAngleSign ==
    single.backend # "unset" =>
      /\ Len(single.ha) = Len(single.args)
      /\ \A i \in DOMAIN single.ha :
           /\ (IF IsNaN(single.ha[i]) THEN NaN ELSE Abs(single.ha[i]))
                = Acos(single.args[i])
           /\ ~IsNaN(single.ha[i]) /\ single.elevation < 0
                => -PI <= single.ha[i] /\ single.ha[i] <= 0
           /\ ~IsNaN(single.ha[i]) /\ single.elevation > 0
                => 0 <= single.ha[i] /\ single.ha[i] <= PI

\* noaa computed two negative hour angles for the sunrise of a mid-latitude
C18_Witness ==
    /\ single.backend = "noaa"
    /\ single.elevation = SunTime_Sunrise
    /\ Len(single.ha) = 2
    /\ single.ha[1] < -HalfPi \div 2 /\ single.ha[2] < -HalfPi \div 2
    /\ single.ha[1] > -PI /\ single.ha[2] > -PI
    /\ single.result # NULLOPT

\* C19: at Vostok (78.46 degrees south) noaa::get_sun_times returns Noon and
\* Midnight on every date; at the June solstice (local winter) Sunrise and Sunset
\* are absent, and at the December solstice (local summer) all eight dawn and
\* dusk events are absent.
C19_VostokSeasons ==
    lat = from_deg(-784639) /\ noaa.exc = "none" =>
      /\ noaa.noon # NULLOPT /\ noaa.midnight # NULLOPT
      /\ date \in {19164, -194} => noaa.sunrise = NULLOPT /\ noaa.sunset = NULLOPT
      /\ date = 19347 => \A f \in TwilightFields : noaa[f] = NULLOPT

\* the polar night of 2022-06-21 at Vostok: no sunrise and no sunset, a nautical
\* dawn before noon
C19_Witness ==
    /\ lat = from_deg(-784639) /\ date = 19164
    /\ pc = "noaa" /\ noaa.exc = "none"
    /\ noaa.sunrise = NULLOPT /\ noaa.sunset = NULLOPT
    /\ noaa.naut_dawn # NULLOPT /\ noaa.naut_dawn < noaa.noon
    /\ noaa.noon < noaa.midnight

\* C20: wiki derives the dawn and the dusk event of an angle from one hour angle
\* at the transit: the two are present or absent together and lie the same time
\* before and after wiki's noon (to 4 s, to 60 s within ten minutes of noon,
\* where the number model is coarse), whatever noaa returns for them; so wiki
\* can return an event that noaa returns absent.
C20_SinglePassSymmetric ==
    wiki.exc = "none" =>
      \A p \in {<<"astro_dawn", "astro_dusk">>, <<"naut_dawn", "naut_dusk">>,
                <<"civil_dawn", "civil_dusk">>, <<"sunrise", "sunset">>} :
        /\ wiki[p[1]] = NULLOPT <=> wiki[p[2]] = NULLOPT
        /\ wiki[p[1]] # NULLOPT =>
             /\ wiki[p[1]] <= wiki.noon /\ wiki.noon <= wiki[p[2]]
             /\ Abs((wiki.noon - wiki[p[1]]) - (wiki[p[2]] - wiki.noon)) <= 60
             /\ wiki[p[2]] - wiki.noon > 600 =>
                  Abs((wiki.noon - wiki[p[1]]) - (wiki[p[2]] - wiki.noon)) <= 4

\* Vostok on 2022-10-21, the first day of the polar day: noaa has a sunrise and
\* no sunset, wiki returns a sunset more than eleven hours after its noon
C20_Witness ==
    /\ pc = "noaa" /\ noaa.exc = "none"
    /\ lat = from_deg(-784639) /\ date = 19286
    /\ noaa.sunrise # NULLOPT /\ noaa.sunset = NULLOPT
    /\ wiki.sunrise # NULLOPT /\ wiki.sunset # NULLOPT
    /\ wiki.sunset - wiki.noon > 11 * 3600
    /\ wiki.sunset < wiki.midnight

\* C21: get_sun_times_c and get_sun_times_rust always fill noon and midnight,
\* and fill each of the eight other fields on its own: with the oracle's time
\* when the oracle reported one (redshift: not NaN; the Rust port: not 0),
\* absent otherwise.
C21_OracleAdapters ==
    calc.op \in {"oracle_c", "oracle_rust"} =>
      /\ calc.times.noon # NULLOPT /\ calc.times.midnight # NULLOPT
      /\ \A i \in 3..10 :
           /\ calc.times[Fields[i]] = NULLOPT <=> calc.report[i] = calc.none
           /\ calc.times[Fields[i]] # NULLOPT /\ date >= 0
                => calc.times[Fields[i]] = calc.report[i]
      /\ date >= 0 => calc.times.noon = calc.report[1]
                       /\ calc.times.midnight = calc.report[2]

\* redshift reported NaN for the sunrise and a time for the sunset
C21_Witness ==
    /\ calc.op = "oracle_c"
    /\ IsNaN(calc.report[6]) /\ ~IsNaN(calc.report[7])
    /\ calc.times.sunrise = NULLOPT
    /\ calc.times.sunset = calc.report[7] /\ calc.times.sunset > calc.times.noon

\* C22: noaa::get_sun_time returns a twilight event exactly when the argument
\* of the arccosine lies in [-1, 1] in both passes; an argument out of range at
\* the converged noon makes the first hour angle, the second argument, the
\* second hour angle and the offset NaN, and one out of range in the second
\* pass alone makes the second hour angle and the offset NaN.
C22_PresentIffBothPasses ==
    single.backend = "noaa" /\ Len(single.args) = 2 =>
      /\ single.result # NULLOPT <=>
           \A i \in 1..2 : Finite(single.args[i]) /\ Abs(single.args[i]) <= S
      /\ single.result = NULLOPT <=> IsNaN(single.instant.off)
      /\ ~(Finite(single.args[1]) /\ Abs(single.args[1]) <= S) =>
           /\ IsNaN(single.ha[1]) /\ IsNaN(single.args[2]) /\ IsNaN(single.ha[2])
      /\ ~(Finite(single.args[2]) /\ Abs(single.args[2]) <= S) => IsNaN(single.ha[2])

\* the first pass found an hour angle and the second pass none
C22_Witness ==
    /\ single.backend = "noaa" /\ Len(single.args) = 2
    /\ Finite(single.args[1]) /\ Abs(single.args[1]) <= S
    /\ ~IsNaN(single.ha[1])
    /\ Finite(single.args[2]) /\ Abs(single.args[2]) > S
    /\ single.result = NULLOPT

\* C23: time_of_solar_noon evaluates the equation of time twice: with d the UTC
\* midnight of the date it returns (180 degrees - lon - eot(t1)) / 360 days,
\* where t1 = d + (180 degrees - lon - eot(t0)) / 360 and
\* t0 = d + (180 degrees - lon) / 360.
C23_NoonTwoPasses ==
    calc.op = "noon" =>
      calc.noon =
        julian_days(Noon - calc.L - equation_of_time(
          AddDays(noaa_j_day(date), julian_days(Noon - calc.L - equation_of_time(
            AddDays(noaa_j_day(date), julian_days(Noon - calc.L)))))))

\* a noon that the second evaluation of the equation of time moved: it is not
\* the noon of the first evaluation
C23_Witness ==
    /\ calc.op = "noon"
    /\ calc.L = from_deg(1068376)
    /\ calc.noon # julian_days(Noon - calc.L - equation_of_time(
                      AddDays(noaa_j_day(date), julian_days(Noon - calc.L))))
    /\ calc.noon > 0 /\ calc.noon < S

\* C24: time_of_solar_elevation takes the hour angle at the converged noon,
\* forms tp = noon + ha(noon) / 360 days and returns
\* (180 degrees - lon - eot(tp) + ha(tp)) / 360 days, both re-evaluated at tp;
\* noaa::get_sun_time returns the date plus that offset, floored to the second.
C24_ElevationTwoPasses ==
    single.backend = "noaa" /\ Len(single.ha) = 2 =>
      /\ single.ha[1] = noaa_hour_angle(noaa_j_noon(lon, date), lat, single.elevation)
      /\ single.ha[2] =
           noaa_hour_angle(AddDays(noaa_j_noon(lon, date), julian_days(single.ha[1])),
                           lat, single.elevation)
      /\ single.instant =
           SysDaysPlus(date, julian_days(NAdd(
               NSub(Noon - lon,
                    equation_of_time(AddDays(noaa_j_noon(lon, date),
                                             julian_days(single.ha[1])))),
               single.ha[2])))
      /\ ~IsNaN(single.instant.off) => single.result = floor_seconds(single.instant)

\* a sunset whose second pass moved it: the offset is not the one the hour angle
\* and the equation of time of the noon give
C24_Witness ==
    /\ single.backend = "noaa" /\ single.elevation = SunTime_Sunset
    /\ Len(single.ha) = 2 /\ single.result # NULLOPT
    /\ single.ha[1] # single.ha[2]
    /\ single.instant.off #
         julian_days(NAdd(NSub(Noon - lon, equation_of_time(noaa_j_noon(lon, date))),
                          single.ha[1]))
    /\ single.result > date * 86400 + 43200

\* C25: in wiki::get_sun_time the event of a target angle and the event of the
\* opposite angle stand or fall together and lie, before the rounding to
\* seconds, the same offset before and after the transit (to 50 micro-days, to
\* 700 within ten minutes of the transit, where the number model is coarse);
\* a dawn is not after wiki's noon and a dusk not before it.
C25_WikiPairs ==
    single.backend = "wiki" /\ Len(single.ha) = 1 =>
      \A tr \in {solar_transit(wiki_mst(lon, date), wiki_sma(lon, date),
                                wiki_el(lon, date))} :
        \A mirror \in {wiki_result(tr, lat, declination_of_the_sun(wiki_el(lon, date)),
                                   -single.elevation)} :
          /\ IsNaN(single.instant.off) <=> IsNaN(mirror.off)
          /\ single.result = NULLOPT <=> IsNaN(mirror.off)
          /\ ~IsNaN(single.instant.off) =>
               /\ Abs((single.instant.off - tr.off) + (mirror.off - tr.off)) <= 700
               /\ Abs(single.instant.off - tr.off) > 7000 =>
                    Abs((single.instant.off - tr.off) + (mirror.off - tr.off)) <= 50
               /\ single.elevation < 0 =>
                    /\ single.instant.off <= tr.off /\ tr.off <= mirror.off
                    /\ single.result <= floor_seconds(julian_to_sys(tr))
               /\ single.elevation > 0 =>
                    /\ mirror.off <= tr.off /\ tr.off <= single.instant.off
                    /\ single.result >= floor_seconds(julian_to_sys(tr))

\* a civil dawn of wiki, hours before the transit
C25_Witness ==
    /\ single.backend = "wiki" /\ single.elevation = SunTime_CivilDawn
    /\ single.result # NULLOPT
    /\ single.ha[1] < -HalfPi \div 2
    /\ single.result < date * 86400 + 43200
    /\ lat = from_deg(520218)

\* C26: in wiki, noaa and noaa-opt the midnight field is the noon field plus
\* exactly 43200 seconds: the anti-transit that follows the noon.
C26_MidnightHalfDayAfterNoon ==
    /\ wiki.exc = "none" => wiki.midnight = wiki.noon + 43200
    /\ noaa.exc = "none" => noaa.midnight = noaa.noon + 43200
    /\ opt.exc = "none" => opt.midnight = opt.noon + 43200

\* the three backends called for a date before 1970, where the counts are
\* negative
C26_Witness ==
    /\ pc = "opt" /\ date < 0
    /\ wiki.exc = "none" /\ noaa.exc = "none" /\ opt.exc = "none"
    /\ wiki.noon < 0 /\ noaa.noon < 0 /\ opt.noon < 0
    /\ wiki.midnight > wiki.noon /\ noaa.midnight > noaa.noon
    /\ opt.midnight > opt.noon

\* C27: get_sun_time for the angles Noon (0 degrees) and Midnight (180
\* degrees) does not depend on the latitude: the call returns what the same
\* call returns at every other latitude, computes no hour angle, and returns
\* the transit or the instant half a day after it.
C27_SentinelsIgnoreLatitude ==
    single.backend # "unset" /\ single.elevation \in {SunTime_Noon, SunTime_Midnight} =>
      /\ Len(single.ha) = 0 /\ Len(single.args) = 0
      /\ single.result # NULLOPT
      /\ single.result = floor_seconds(single.instant)
      /\ \A l \in Locations :
           single.result =
             IF single.backend = "noaa"
             THEN noaa_get_sun_time(l.latitude, lon, date, single.elevation)
             ELSE wiki_get_sun_time(l.latitude, lon, date, single.elevation)
      /\ single.backend = "noaa" =>
           single.instant =
             AddDays(SysDaysPlus(date, time_of_solar_noon(noaa_j_day(date), lon)),
                     IF single.elevation = SunTime_Midnight THEN 500000 ELSE 0)
      /\ single.backend = "wiki" =>
           single.instant =
             julian_to_sys(AddDays(solar_transit(wiki_mst(lon, date), wiki_sma(lon, date),
                                                 wiki_el(lon, date)),
                                   IF single.elevation = SunTime_Midnight
                                   THEN 500000 ELSE 0))

\* the angle of 0 degrees asked of noaa at the north pole, where no elevation
\* crossing could be computed
C27_Witness ==
    /\ single.backend = "noaa" /\ single.elevation = from_deg(0)
    /\ lat = from_deg(900000)
    /\ single.result # NULLOPT
    /\ single.result = noaa_get_sun_time(from_deg(0), lon, date, from_deg(0))

\* C28: get_sun_times and get_sun_times2 of the enum-based snapshots never
\* reach the invalid_argument of time_angle: all ten calls of get_sun_time are
\* made and none throws, Noon and Midnight are answered without a lookup, and
\* each of the other eight kinds is looked up once and has its angle.
C28_NoInvalidArgument ==
    calc.op = "enum_times" =>
      /\ calc.exc = "none"
      /\ Len(calc.calls) = 10
      /\ \A i \in 1..Len(calc.calls) :
           /\ calc.calls[i].type = EnumOrder[i]
           /\ calc.calls[i].exc = "none"
           /\ i <= 2 => calc.calls[i].looked = <<>>
           /\ i > 2 => /\ calc.calls[i].looked = <<EnumOrder[i]>>
                       /\ time_angle(EnumOrder[i]) = Returned(KindAngle(EnumOrder[i]))

\* get_sun_times2 at Vostok in the polar night: sunrise was looked up and is
\* absent, noon was answered without a lookup
C28_Witness ==
    /\ calc.op = "enum_times" /\ calc.fn = "get_sun_times2"
    /\ lat = from_deg(-784639) /\ date = 19164
    /\ Len(calc.calls) = 10
    /\ calc.calls[1].looked = <<>> /\ calc.calls[1].result # NULLOPT
    /\ calc.calls[6].looked = <<"Sunrise">> /\ calc.calls[6].result = NULLOPT

\* hours from 2000-01-01 12:00 UTC to the instant sec seconds into date D
HoursFromEpoch(D, sec) == (D - 10957) * 24 + sec \div 3600 - 12

\* h hours in Julian centuries of 36525 days with nine decimals, to three
\* units: 1e9 / (36525 * 24) = 1140.7711613 per hour
HoursInCenturies(h) == h * 1140 + (h * 7711) \div 10000 + (h * 613) \div 10000000

\* C29: the time argument noaa gives the ephemeris functions for the UTC
\* date D is the time from 2000-01-01 12:00 UTC to D 00:00 UTC in Julian
\* centuries of 36525 days: 0 at 2000-01-01 12:00, -0.5 / 36525 for the date
\* 2000-01-01, within 0.01 of 0.23 for the dates of 2023; times in units of
\* 1e-9 centuries, to four units.
C29_CenturiesSinceJ2000 ==
    calc.op = "century" =>
      /\ calc.t - HoursInCenturies(HoursFromEpoch(calc.D, calc.sec)) \in -4..4
      /\ calc.sec = 0 => calc.tp = noaa_j_day(calc.D)
      /\ calc.D = 10957 /\ calc.sec = 43200 => calc.t \in -1..1
      /\ calc.D = 10957 /\ calc.sec = 0 => calc.t \in -13690..-13689
      /\ calc.D \in 19358..19722 /\ calc.sec = 0 =>
           /\ calc.t >= 220000000 /\ calc.t <= 240000000
           /\ calc.t > HoursInCenturies(HoursFromEpoch(calc.D - 1, 0))

\* the argument for 2023-07-02 00:00 UTC, 0.2349 centuries
C29_Witness ==
    /\ calc.op = "century" /\ calc.D = 19539 /\ calc.sec = 0
    /\ calc.t \in 234948000..234949000

====
